---- MODULE Spec2Model ----
(***************************************************************************)
(* Client-side orchestration of the compliance assistant                   *)
(* (src/txtai/script.js): the dual selection store, the listing refreshes, *)
(* the document deletes and the /query state machine.                      *)
(*                                                                         *)
(* The page runs on one thread: every handler runs to its next await       *)
(* without interruption, so an action below is one such run (an event      *)
(* handler up to its first await, or the continuation of an await).        *)
(* The backend is the environment: the payload and the status of every     *)
(* response are inputs.                                                    *)
(***************************************************************************)
EXTENDS FiniteSets, Integers, Sequences, TLC

\* Filenames the backend can list, one universe per category.
UserFiles == {"agreement.pdf", "lease.pdf"}
RegFiles == {"rera_act.pdf", "circular.pdf"}

\* Texts the user can have typed in the message input, as character sequences.
Messages == {<<>>, <<" ">>, <<"q">>, <<" ", "q", " ">>}

\* At most MaxPending requests of one endpoint are in flight at once.
MaxPending == 1
\* At most MaxQueries /query requests are issued in one run.
MaxQueries == 2

Null == "null"

VARIABLES
    documents,                  \* state.documents (filenames of the listing)
    mahareraDocuments,          \* state.mahareraDocuments (filenames)
    selectedUserDocIds,         \* state.selectedUserDocIds
    selectedMahareraIds,        \* state.selectedMahareraIds
    selectedDocument,           \* state.selectedDocument (legacy single selection)
    isLoading,                  \* state.isLoading
    chatHistory,                \* state.chatHistory, as <<role, kind, query id>>
    selectAllUserDocs,          \* elements.selectAllUserDocs: checked, indeterminate, disabled
    selectAllMaharera,          \* elements.selectAllMaharera: checked, indeterminate, disabled
    checkComplianceBtnDisabled, \* elements.checkComplianceBtn.disabled
    batchProcessBtnDisabled,    \* elements.batchProcessBtn.disabled
    sendBtnDisabled,            \* elements.sendBtn.disabled
    deleteMahareraBtnDisabled,  \* elements.deleteMahareraBtn.disabled
    typingIndicators,           \* number of .typing-message nodes in the chat
    uncaught,                   \* exceptions that left sendMessage / checkCompliance
    pendingDocuments,           \* GET /documents requests in flight
    pendingMaharera,            \* GET /maharera requests in flight
    pendingStatus,              \* GET /status requests in flight
    deleting,                   \* filenames with a POST /delete in flight
    queries,                    \* POST /query requests in flight: [id, kind, pc]
    netCalls,                   \* POST /query requests issued so far
    lastSubmit,                 \* how the last sendMessage / checkCompliance call ended
    lastOp,                     \* the last selection operation: [op, arg]
    prevOp,                     \* the selection operation before it
    selBefore,                  \* the selection lastOp acted on, as it was before lastOp
    selBefore2,                 \* the same selection before prevOp, when prevOp acted on it too
    batchModalActive,           \* elements.batchModal has class active
    batchDocList,               \* filenames of the checkboxes in elements.batchDocList
    batchChecked,               \* those of them that are checked
    startBatchBtnDisabled,      \* elements.startBatchBtn.disabled
    batchProgress,              \* elements.batchProgress*: [display, width, text, background]
    batchRequests,              \* POST /batch-process requests in flight: [id, documentIds, mahareraIds, pc]
    batchCalls,                 \* POST /batch-process requests issued so far
    batchResultsShown,          \* batch result messages appended to the chat
    pendingUsage,               \* GET /usage requests in flight
    reportsSaved,               \* compliance reports saved by doc.save
    focus,                      \* the kind of activity a run of SpecFrame follows
    topK,                       \* state.settings.topK
    sent,                       \* bodies of the POST /query requests in flight: [id, body]
    report,                     \* a generateComplianceReport call under way: doc, yPos, position
    probe                       \* the input a function of the page is applied to, and its result

selVars == <<documents, mahareraDocuments, selectedUserDocIds, selectedMahareraIds,
             selectedDocument, selectAllUserDocs, selectAllMaharera,
             checkComplianceBtnDisabled, batchProcessBtnDisabled,
             deleteMahareraBtnDisabled, pendingDocuments, pendingMaharera,
             pendingStatus, deleting>>

queryVars == <<isLoading, chatHistory, sendBtnDisabled, typingIndicators, uncaught, queries,
               netCalls>>

\* What the followed operations leave behind for the properties to read; the
\* handlers themselves never read it.
obsVars == <<lastOp, prevOp, selBefore, selBefore2>>

batchVars == <<batchModalActive, batchDocList, batchChecked, startBatchBtnDisabled,
               batchProgress, batchRequests, batchCalls, batchResultsShown>>

\* The rest of the page, which the selection store and the orchestrator never
\* touch.
requestVars == <<topK, sent>>

extVars == <<batchVars, pendingUsage, reportsSaved, focus, requestVars, report, probe>>

auxVars == <<obsVars, extVars>>

vars == <<selVars, queryVars, lastSubmit, auxVars>>

----
\* Derived views of the selection store.

\* A status whose checked flag forgets that the listing may be empty.
SelectAllStatusAnyTotal(selectedCount, totalDocs) ==
    [checked |-> (selectedCount = totalDocs),
     indeterminate |-> (selectedCount > 0 /\ selectedCount < totalDocs)]

\* updateSelectAllUserDocsState / updateSelectAllState: the checked and
\* indeterminate flags from the two counts.
SelectAllStatus(selectedCount, totalDocs) ==
    [checked |-> (selectedCount = totalDocs /\ totalDocs > 0),
     indeterminate |-> (selectedCount > 0 /\ selectedCount < totalDocs)]

WithStatus(control, selected, listing) ==
    LET s == SelectAllStatus(Cardinality(selected), Cardinality(listing))
    IN  [control EXCEPT !.checked = s.checked, !.indeterminate = s.indeterminate]

\* updateComplianceButtonState: the Check Compliance button is enabled iff there
\* is a listed user document and a selected regulatory document.
ComplianceBtnDisabled(docs, selMaharera) ==
    ~(docs # {} /\ selMaharera # {})

\* updateComplianceButtonState: the batch button follows the user selection.
BatchBtnDisabled(selUser) == selUser = {}

\* renderDocumentList: an empty listing unchecks and disables the select-all box,
\* a non-empty one enables it and leaves checked/indeterminate as they are.
RenderDocumentList(control, listing) ==
    IF listing = {}
    THEN [control EXCEPT !.checked = FALSE, !.disabled = TRUE]
    ELSE [control EXCEPT !.disabled = FALSE]

\* A user's click on a select-all checkbox, before its change handler runs:
\* the browser flips checked and clears indeterminate.
Clicked(control) ==
    [control EXCEPT !.checked = ~control.checked, !.indeterminate = FALSE]

\* A toggle that only ever adds.
ToggledAddOnly(selected, filename) == selected \cup {filename}

Toggled(selected, filename) ==
    IF filename \in selected THEN selected \ {filename} ELSE selected \cup {filename}

\* String.prototype.trim on a character sequence.
RECURSIVE TrimStart(_)
TrimStart(s) ==
    IF s # <<>> /\ Head(s) = " " THEN TrimStart(Tail(s)) ELSE s

RECURSIVE TrimEnd(_)
TrimEnd(s) ==
    IF s # <<>> /\ s[Len(s)] = " " THEN TrimEnd(SubSeq(s, 1, Len(s) - 1)) ELSE s

Trim(s) == TrimEnd(TrimStart(s))

\* sendMessage's guard: nothing to send, or a query is loading.
\* A guard that looks at the question only.
SendRejectedBlankOnly(message, loading) == message = <<>>

SendRejected(message, loading) == message = <<>> \/ loading

\* checkCompliance's two validations, in the order the code makes them.
\* A validation that looks at the regulatory selection only.
ComplianceValidationSelectionOnly(selMaharera, docs) ==
    IF selMaharera = {} THEN "noMaharera" ELSE "ok"

ComplianceValidation(selMaharera, docs) ==
    IF selMaharera = {} THEN "noMaharera"
    ELSE IF docs = {} THEN "noDocuments"
    ELSE "ok"

\* removeTypingIndicator removes the first typing node, if there is one.
RemoveTypingIndicator(n) == IF n > 0 THEN n - 1 ELSE 0

\* addMessage appends one entry to the conversation.
AddMessage(chat, role, kind, id) == Append(chat, <<role, kind, id>>)

----
NoOp == [op |-> "none", arg |-> "none"]

ObsInit ==
    /\ lastOp = NoOp
    /\ prevOp = NoOp
    /\ selBefore = {}
    /\ selBefore2 = {}

\* The batch dialog is closed and empty, its progress bar hidden.
BatchInit ==
    /\ batchModalActive = FALSE
    /\ batchDocList = {}
    /\ batchChecked = {}
    /\ startBatchBtnDisabled = FALSE
    /\ batchProgress = [display |-> FALSE, width |-> 0, text |-> "", background |-> "default"]
    /\ batchRequests = {}
    /\ batchCalls = 0
    /\ batchResultsShown = 0

\* A number as JavaScript holds it and as JSON carries it: parseInt may give
\* NaN, and JSON.stringify writes NaN as null.
Num(n) == [type |-> "number", value |-> n]

NaN == [type |-> "NaN"]

JsonNull == [type |-> "null"]

JsonArray(items) == [type |-> "array", items |-> items]

\* state.settings as declared, with no stored preferences, and no request sent.
RequestInit ==
    /\ topK = Num(3)
    /\ sent = {}

\* No function is being applied.
NoProbe == [fn |-> "none"]

\* Nothing drawn yet.
NoDraw == [kind |-> "none", block |-> "none", page |-> 0, y |-> 0, bottom |-> 0]

\* No report is being built.
IdleReport ==
    [pc |-> "idle", ops |-> <<>>, yPos |-> 0, pageCount |-> 0, footers |-> 0, draw |-> NoDraw]

ExtInit ==
    /\ BatchInit
    /\ pendingUsage = 0
    /\ reportsSaved = 0
    /\ focus = "none"
    /\ RequestInit
    /\ report = IdleReport
    /\ probe = NoProbe

AuxInit == ObsInit /\ ExtInit

Init ==
    /\ documents = {}
    /\ mahareraDocuments = {}
    /\ selectedUserDocIds = {}
    /\ selectedMahareraIds = {}
    /\ selectedDocument = Null
    /\ isLoading = FALSE
    /\ chatHistory = <<>>
    /\ selectAllUserDocs \in [checked : {FALSE}, indeterminate : {FALSE}, disabled : BOOLEAN]
    /\ selectAllMaharera \in [checked : {FALSE}, indeterminate : {FALSE}, disabled : BOOLEAN]
    /\ checkComplianceBtnDisabled \in BOOLEAN
    /\ batchProcessBtnDisabled \in BOOLEAN
    /\ sendBtnDisabled = FALSE
    /\ deleteMahareraBtnDisabled = FALSE
    /\ typingIndicators = 0
    /\ uncaught = 0
    /\ pendingDocuments = 0
    /\ pendingMaharera = 0
    /\ pendingStatus = 1
    /\ deleting = {}
    /\ queries = {}
    /\ netCalls = 0
    /\ lastSubmit = "none"
    /\ AuxInit

----
\* Selection store.

toggleUserDocSelection(filename) ==
    /\ selectedUserDocIds' = Toggled(selectedUserDocIds, filename)
    /\ selectAllUserDocs' = WithStatus(selectAllUserDocs, selectedUserDocIds', documents)
    /\ checkComplianceBtnDisabled' = ComplianceBtnDisabled(documents, selectedMahareraIds)
    /\ batchProcessBtnDisabled' = BatchBtnDisabled(selectedUserDocIds')
    /\ lastSubmit' = "none"
    /\ UNCHANGED <<documents, mahareraDocuments, selectedMahareraIds, selectedDocument,
                   selectAllMaharera, deleteMahareraBtnDisabled, pendingDocuments,
                   pendingMaharera, pendingStatus, deleting, queryVars>>

\* A click on a rendered user-document checkbox: the list shows the listing.
ToggleUserDoc == \E filename \in documents : toggleUserDocSelection(filename)

\* A select-all that adds the listing without clearing the selection first.
toggleSelectAllUserDocsKeeping ==
    /\ ~selectAllUserDocs.disabled
    /\ selectAllUserDocs' = Clicked(selectAllUserDocs)
    /\ selectedUserDocIds' = IF selectAllUserDocs'.checked
                             THEN selectedUserDocIds \cup documents ELSE {}
    /\ checkComplianceBtnDisabled' = ComplianceBtnDisabled(documents, selectedMahareraIds)
    /\ batchProcessBtnDisabled' = BatchBtnDisabled(selectedUserDocIds')
    /\ lastSubmit' = "none"
    /\ UNCHANGED <<documents, mahareraDocuments, selectedMahareraIds, selectedDocument,
                   selectAllMaharera, deleteMahareraBtnDisabled, pendingDocuments,
                   pendingMaharera, pendingStatus, deleting, queryVars>>

toggleSelectAllUserDocs ==
    /\ ~selectAllUserDocs.disabled
    /\ selectAllUserDocs' = Clicked(selectAllUserDocs)
    /\ selectedUserDocIds' = IF selectAllUserDocs'.checked THEN documents ELSE {}
    /\ checkComplianceBtnDisabled' = ComplianceBtnDisabled(documents, selectedMahareraIds)
    /\ batchProcessBtnDisabled' = BatchBtnDisabled(selectedUserDocIds')
    /\ lastSubmit' = "none"
    /\ UNCHANGED <<documents, mahareraDocuments, selectedMahareraIds, selectedDocument,
                   selectAllMaharera, deleteMahareraBtnDisabled, pendingDocuments,
                   pendingMaharera, pendingStatus, deleting, queryVars>>

toggleMahareraSelection(filename) ==
    /\ selectedMahareraIds' = Toggled(selectedMahareraIds, filename)
    /\ selectAllMaharera' = WithStatus(selectAllMaharera, selectedMahareraIds', mahareraDocuments)
    /\ checkComplianceBtnDisabled' = ComplianceBtnDisabled(documents, selectedMahareraIds')
    /\ batchProcessBtnDisabled' = BatchBtnDisabled(selectedUserDocIds)
    /\ lastSubmit' = "none"
    /\ UNCHANGED <<documents, mahareraDocuments, selectedUserDocIds, selectedDocument,
                   selectAllUserDocs, deleteMahareraBtnDisabled, pendingDocuments,
                   pendingMaharera, pendingStatus, deleting, queryVars>>

\* A click on a rendered regulatory checkbox.
ToggleMaharera == \E filename \in mahareraDocuments : toggleMahareraSelection(filename)

\* A select-all that clears nothing when the box is unchecked.
toggleSelectAllMahareraNoClear ==
    /\ ~selectAllMaharera.disabled
    /\ selectAllMaharera' = Clicked(selectAllMaharera)
    /\ selectedMahareraIds' = IF selectAllMaharera'.checked
                              THEN mahareraDocuments ELSE selectedMahareraIds
    /\ checkComplianceBtnDisabled' = ComplianceBtnDisabled(documents, selectedMahareraIds')
    /\ batchProcessBtnDisabled' = BatchBtnDisabled(selectedUserDocIds)
    /\ lastSubmit' = "none"
    /\ UNCHANGED <<documents, mahareraDocuments, selectedUserDocIds, selectedDocument,
                   selectAllUserDocs, deleteMahareraBtnDisabled, pendingDocuments,
                   pendingMaharera, pendingStatus, deleting, queryVars>>

toggleSelectAllMaharera ==
    /\ ~selectAllMaharera.disabled
    /\ selectAllMaharera' = Clicked(selectAllMaharera)
    /\ selectedMahareraIds' = IF selectAllMaharera'.checked THEN mahareraDocuments ELSE {}
    /\ checkComplianceBtnDisabled' = ComplianceBtnDisabled(documents, selectedMahareraIds')
    /\ batchProcessBtnDisabled' = BatchBtnDisabled(selectedUserDocIds)
    /\ lastSubmit' = "none"
    /\ UNCHANGED <<documents, mahareraDocuments, selectedUserDocIds, selectedDocument,
                   selectAllUserDocs, deleteMahareraBtnDisabled, pendingDocuments,
                   pendingMaharera, pendingStatus, deleting, queryVars>>

----
\* Listing refreshes and the periodic status check.

\* loadDocuments up to its await: the Load button, always enabled.
loadDocuments ==
    /\ pendingDocuments < MaxPending
    /\ pendingDocuments' = pendingDocuments + 1
    /\ lastSubmit' = "none"
    /\ UNCHANGED <<documents, mahareraDocuments, selectedUserDocIds, selectedMahareraIds,
                   selectedDocument, selectAllUserDocs, selectAllMaharera,
                   checkComplianceBtnDisabled, batchProcessBtnDisabled,
                   deleteMahareraBtnDisabled, pendingMaharera, pendingStatus, deleting,
                   queryVars>>

\* loadDocuments after its await: a response that is ok replaces the listing and
\* renders it; anything else (status not ok, network error, bad body) changes nothing.
LoadDocumentsEffect(outcome, listing) ==
    IF outcome = "ok"
    THEN /\ documents' = listing
         /\ selectAllUserDocs' = RenderDocumentList(selectAllUserDocs, listing)
    ELSE UNCHANGED <<documents, selectAllUserDocs>>

loadDocumentsSettles(outcome, listing) ==
    /\ pendingDocuments > 0
    /\ pendingDocuments' = pendingDocuments - 1
    /\ LoadDocumentsEffect(outcome, listing)
    /\ lastSubmit' = "none"
    /\ UNCHANGED <<mahareraDocuments, selectedUserDocIds, selectedMahareraIds,
                   selectedDocument, selectAllMaharera, checkComplianceBtnDisabled,
                   batchProcessBtnDisabled, deleteMahareraBtnDisabled, pendingMaharera,
                   pendingStatus, deleting, queryVars>>

LoadDocumentsSettles ==
    \E outcome \in {"ok", "failed"}, listing \in SUBSET UserFiles :
        /\ outcome = "failed" => listing = {}
        /\ loadDocumentsSettles(outcome, listing)

\* loadMahareraDocuments after its await; renderMahareraList returns early on an
\* empty listing, and otherwise ends with updateComplianceButtonState.
LoadMahareraDocumentsEffect(outcome, listing) ==
    IF outcome # "ok"
    THEN UNCHANGED <<mahareraDocuments, selectAllMaharera, checkComplianceBtnDisabled,
                     batchProcessBtnDisabled>>
    ELSE /\ mahareraDocuments' = listing
         /\ IF listing = {}
            THEN /\ selectAllMaharera' =
                        [selectAllMaharera EXCEPT !.checked = FALSE, !.disabled = TRUE]
                 /\ checkComplianceBtnDisabled' = TRUE
                 /\ UNCHANGED batchProcessBtnDisabled
            ELSE /\ selectAllMaharera' = [selectAllMaharera EXCEPT !.disabled = FALSE]
                 /\ checkComplianceBtnDisabled' =
                        ComplianceBtnDisabled(documents, selectedMahareraIds)
                 /\ batchProcessBtnDisabled' = BatchBtnDisabled(selectedUserDocIds)

loadMahareraDocumentsSettles(outcome, listing) ==
    /\ pendingMaharera > 0
    /\ pendingMaharera' = pendingMaharera - 1
    /\ LoadMahareraDocumentsEffect(outcome, listing)
    /\ lastSubmit' = "none"
    /\ UNCHANGED <<documents, selectedUserDocIds, selectedMahareraIds, selectedDocument,
                   selectAllUserDocs, deleteMahareraBtnDisabled, pendingDocuments,
                   pendingStatus, deleting, queryVars>>

LoadMahareraDocumentsSettles ==
    \E outcome \in {"ok", "failed"}, listing \in SUBSET RegFiles :
        /\ outcome = "failed" => listing = {}
        /\ loadMahareraDocumentsSettles(outcome, listing)

\* A status poll that waits for the orchestrator to be idle.
checkServerStatusWhenIdle ==
    /\ ~isLoading
    /\ pendingStatus < MaxPending
    /\ pendingStatus' = pendingStatus + 1
    /\ lastSubmit' = "none"
    /\ UNCHANGED <<documents, mahareraDocuments, selectedUserDocIds, selectedMahareraIds,
                   selectedDocument, selectAllUserDocs, selectAllMaharera,
                   checkComplianceBtnDisabled, batchProcessBtnDisabled,
                   deleteMahareraBtnDisabled, pendingDocuments, pendingMaharera, deleting,
                   queryVars>>

\* checkServerStatus up to its await: the 30-second timer.
checkServerStatus ==
    /\ pendingStatus < MaxPending
    /\ pendingStatus' = pendingStatus + 1
    /\ lastSubmit' = "none"
    /\ UNCHANGED <<documents, mahareraDocuments, selectedUserDocIds, selectedMahareraIds,
                   selectedDocument, selectAllUserDocs, selectAllMaharera,
                   checkComplianceBtnDisabled, batchProcessBtnDisabled,
                   deleteMahareraBtnDisabled, pendingDocuments, pendingMaharera, deleting,
                   queryVars>>

\* checkServerStatus after its await: both listings are reloaded when the
\* response is ok and reports a document count above zero.
checkServerStatusSettles(outcome, count) ==
    /\ pendingStatus > 0
    /\ pendingStatus' = pendingStatus - 1
    /\ IF outcome = "ok" /\ count > 0
       THEN /\ pendingDocuments < MaxPending
            /\ pendingMaharera < MaxPending
            /\ pendingDocuments' = pendingDocuments + 1
            /\ pendingMaharera' = pendingMaharera + 1
       ELSE UNCHANGED <<pendingDocuments, pendingMaharera>>
    /\ lastSubmit' = "none"
    /\ UNCHANGED <<documents, mahareraDocuments, selectedUserDocIds, selectedMahareraIds,
                   selectedDocument, selectAllUserDocs, selectAllMaharera,
                   checkComplianceBtnDisabled, batchProcessBtnDisabled,
                   deleteMahareraBtnDisabled, deleting, queryVars>>

CheckServerStatusSettles ==
    \E outcome \in {"ok", "failed"}, count \in 0..1 :
        checkServerStatusSettles(outcome, count)

----
\* Deletes.

\* deleteDocument up to its await: the delete button of a listed document, the
\* confirm dialog answered yes.
deleteDocument(filename) ==
    /\ filename \notin deleting
    /\ Cardinality(deleting) < MaxPending
    /\ deleting' = deleting \cup {filename}
    /\ lastSubmit' = "none"
    /\ UNCHANGED <<documents, mahareraDocuments, selectedUserDocIds, selectedMahareraIds,
                   selectedDocument, selectAllUserDocs, selectAllMaharera,
                   checkComplianceBtnDisabled, batchProcessBtnDisabled,
                   deleteMahareraBtnDisabled, pendingDocuments, pendingMaharera,
                   pendingStatus, queryVars>>

DeleteDocument == \E filename \in documents : deleteDocument(filename)

\* deleteDocument after its await: on an ok response the listing is reloaded and
\* the legacy single selection is cleared when it names the deleted file.
deleteDocumentSettles(filename, outcome) ==
    /\ filename \in deleting
    /\ deleting' = deleting \ {filename}
    /\ IF outcome = "ok"
       THEN /\ pendingDocuments < MaxPending
            /\ pendingDocuments' = pendingDocuments + 1
            /\ selectedDocument' = IF selectedDocument = filename THEN Null
                                   ELSE selectedDocument
       ELSE UNCHANGED <<pendingDocuments, selectedDocument>>
    /\ UNCHANGED selectedUserDocIds
    /\ lastSubmit' = "none"
    /\ UNCHANGED <<documents, mahareraDocuments, selectedMahareraIds, selectAllUserDocs,
                   selectAllMaharera, checkComplianceBtnDisabled, batchProcessBtnDisabled,
                   deleteMahareraBtnDisabled, pendingMaharera, pendingStatus, queryVars>>

DeleteDocumentSettles ==
    \E filename \in UserFiles, outcome \in {"ok", "failed"} :
        deleteDocumentSettles(filename, outcome)

\* deleteMahareraDocuments up to its await: confirm answered yes, the button is
\* disabled while the request is in flight.
deleteMahareraDocuments ==
    /\ ~deleteMahareraBtnDisabled
    /\ deleteMahareraBtnDisabled' = TRUE
    /\ lastSubmit' = "none"
    /\ UNCHANGED <<documents, mahareraDocuments, selectedUserDocIds, selectedMahareraIds,
                   selectedDocument, selectAllUserDocs, selectAllMaharera,
                   checkComplianceBtnDisabled, batchProcessBtnDisabled, pendingDocuments,
                   pendingMaharera, pendingStatus, deleting, queryVars>>

\* deleteMahareraDocuments after its await: data.success reloads the regulatory
\* listing and re-checks the server status; the button is re-enabled in any case.
deleteMahareraDocumentsSettles(outcome) ==
    /\ deleteMahareraBtnDisabled
    /\ deleteMahareraBtnDisabled' = FALSE
    /\ IF outcome = "ok"
       THEN /\ pendingMaharera < MaxPending
            /\ pendingStatus < MaxPending
            /\ pendingMaharera' = pendingMaharera + 1
            /\ pendingStatus' = pendingStatus + 1
       ELSE UNCHANGED <<pendingMaharera, pendingStatus>>
    /\ lastSubmit' = "none"
    /\ UNCHANGED <<documents, mahareraDocuments, selectedUserDocIds, selectedMahareraIds,
                   selectedDocument, selectAllUserDocs, selectAllMaharera,
                   checkComplianceBtnDisabled, batchProcessBtnDisabled, pendingDocuments,
                   deleting, queryVars>>

DeleteMahareraDocumentsSettles ==
    \E outcome \in {"ok", "failed"} : deleteMahareraDocumentsSettles(outcome)

----
\* Query orchestration: sendMessage and checkCompliance.

\* sendMessage up to its await. The Enter key and the sample buttons call it
\* whatever the state of the send button.
sendMessage(text) ==
    LET message == Trim(text) IN
    IF SendRejected(message, isLoading)
    THEN /\ lastSubmit' = IF message = <<>> THEN "send:empty" ELSE "send:loading"
         /\ UNCHANGED <<selVars, queryVars>>
    ELSE /\ netCalls < MaxQueries
         /\ chatHistory' = AddMessage(chatHistory, "user", "question", netCalls + 1)
         /\ typingIndicators' = typingIndicators + 1
         /\ isLoading' = TRUE
         /\ sendBtnDisabled' = TRUE
         /\ queries' = queries \cup {[id |-> netCalls + 1, kind |-> "query", pc |-> "fetch"]}
         /\ netCalls' = netCalls + 1
         /\ lastSubmit' = "send:accepted"
         /\ UNCHANGED <<selVars, uncaught>>

SendMessage == \E text \in Messages : sendMessage(text)

\* checkCompliance up to its await: a click on the enabled Check Compliance button.
checkCompliance ==
    /\ ~checkComplianceBtnDisabled
    /\ LET valid == ComplianceValidation(selectedMahareraIds, documents) IN
       IF valid # "ok"
       THEN /\ lastSubmit' = "compliance:" \o valid
            /\ UNCHANGED <<selVars, queryVars>>
       ELSE /\ netCalls < MaxQueries
            /\ chatHistory' = AddMessage(chatHistory, "user", "question", netCalls + 1)
            /\ typingIndicators' = typingIndicators + 1
            /\ isLoading' = TRUE
            /\ sendBtnDisabled' = TRUE
            /\ checkComplianceBtnDisabled' = TRUE
            /\ queries' = queries \cup
                   {[id |-> netCalls + 1, kind |-> "compliance", pc |-> "fetch"]}
            /\ netCalls' = netCalls + 1
            /\ lastSubmit' = "compliance:accepted"
            /\ UNCHANGED <<documents, mahareraDocuments, selectedUserDocIds,
                           selectedMahareraIds, selectedDocument, selectAllUserDocs,
                           selectAllMaharera, batchProcessBtnDisabled,
                           deleteMahareraBtnDisabled, pendingDocuments, pendingMaharera,
                           pendingStatus, deleting, uncaught>>

\* A finally block that leaves isLoading and the send button as they are.
FinallyKeepsLoading(kind) ==
    /\ UNCHANGED <<isLoading, sendBtnDisabled>>
    /\ IF kind = "compliance"
       THEN /\ checkComplianceBtnDisabled' =
                   ComplianceBtnDisabled(documents, selectedMahareraIds)
            /\ batchProcessBtnDisabled' = BatchBtnDisabled(selectedUserDocIds)
       ELSE UNCHANGED <<checkComplianceBtnDisabled, batchProcessBtnDisabled>>

\* The finally block of both handlers; checkCompliance's also runs
\* updateComplianceButtonState.
Finally(kind) ==
    /\ isLoading' = FALSE
    /\ sendBtnDisabled' = FALSE
    /\ IF kind = "compliance"
       THEN /\ checkComplianceBtnDisabled' =
                   ComplianceBtnDisabled(documents, selectedMahareraIds)
            /\ batchProcessBtnDisabled' = BatchBtnDisabled(selectedUserDocIds)
       ELSE UNCHANGED <<checkComplianceBtnDisabled, batchProcessBtnDisabled>>

\* The handler of q ends with one assistant message of the given kind.
Completes(q, kind, typing) ==
    /\ chatHistory' = AddMessage(chatHistory, "assistant", kind, q.id)
    /\ typingIndicators' = typing
    /\ queries' = queries \ {q}
    /\ Finally(q.kind)
    /\ UNCHANGED uncaught

\* The handler of q goes on to await the body of the response.
AwaitsBody(q, pc, typing) ==
    /\ queries' = (queries \ {q}) \cup {[q EXCEPT !.pc = pc]}
    /\ typingIndicators' = typing
    /\ UNCHANGED <<chatHistory, isLoading, sendBtnDisabled, checkComplianceBtnDisabled,
                   batchProcessBtnDisabled, uncaught>>

\* A handler that issues the request again when the network call fails.
fetchSettlesRetrying(q, outcome) ==
    /\ q \in queries
    /\ q.pc = "fetch"
    /\ LET typing == RemoveTypingIndicator(typingIndicators) IN
       CASE outcome = "networkError" /\ netCalls < MaxQueries ->
                /\ netCalls' = netCalls + 1
                /\ UNCHANGED <<queries, chatHistory, typingIndicators, isLoading,
                               sendBtnDisabled, checkComplianceBtnDisabled,
                               batchProcessBtnDisabled, uncaught>>
         [] outcome = "networkError" /\ netCalls >= MaxQueries ->
                Completes(q, "error", typing) /\ UNCHANGED netCalls
         [] outcome = "ok" -> AwaitsBody(q, "json", typing) /\ UNCHANGED netCalls
         [] outcome = "httpError" /\ q.kind = "query" ->
                Completes(q, "error", typing) /\ UNCHANGED netCalls
         [] outcome = "httpError" /\ q.kind = "compliance" ->
                AwaitsBody(q, "errorJson", typing) /\ UNCHANGED netCalls
    /\ lastSubmit' = "none"
    /\ UNCHANGED <<documents, mahareraDocuments, selectedUserDocIds, selectedMahareraIds,
                   selectedDocument, selectAllUserDocs, selectAllMaharera,
                   deleteMahareraBtnDisabled, pendingDocuments, pendingMaharera,
                   pendingStatus, deleting>>

\* The fetch of q settles. A rejection goes to the catch block; a response
\* removes the typing indicator and is then read (sendMessage reads the body of
\* an ok response only, checkCompliance reads the error body too).
fetchSettles(q, outcome) ==
    /\ q \in queries
    /\ q.pc = "fetch"
    /\ LET typing == RemoveTypingIndicator(typingIndicators) IN
       CASE outcome = "networkError" -> Completes(q, "error", typing)
         [] outcome = "ok" -> AwaitsBody(q, "json", typing)
         [] outcome = "httpError" /\ q.kind = "query" -> Completes(q, "error", typing)
         [] outcome = "httpError" /\ q.kind = "compliance" ->
                AwaitsBody(q, "errorJson", typing)
    /\ lastSubmit' = "none"
    /\ UNCHANGED <<documents, mahareraDocuments, selectedUserDocIds, selectedMahareraIds,
                   selectedDocument, selectAllUserDocs, selectAllMaharera,
                   deleteMahareraBtnDisabled, pendingDocuments, pendingMaharera,
                   pendingStatus, deleting, netCalls>>

FetchSettles ==
    \E q \in queries, outcome \in {"ok", "httpError", "networkError"} :
        fetchSettles(q, outcome)

\* A handler without the catch block: a body that does not parse or render ends
\* the handler with an exception and no message.
bodySettlesNoCatch(q, body) ==
    /\ q \in queries
    /\ q.pc \in {"json", "errorJson"}
    /\ IF body = "wellFormed"
       THEN Completes(q, IF q.pc = "json" THEN "answer" ELSE "error", typingIndicators)
       ELSE /\ uncaught' = uncaught + 1
            /\ queries' = queries \ {q}
            /\ Finally(q.kind)
            /\ UNCHANGED <<chatHistory, typingIndicators>>
    /\ lastSubmit' = "none"
    /\ UNCHANGED <<documents, mahareraDocuments, selectedUserDocIds, selectedMahareraIds,
                   selectedDocument, selectAllUserDocs, selectAllMaharera,
                   deleteMahareraBtnDisabled, pendingDocuments, pendingMaharera,
                   pendingStatus, deleting, netCalls>>

\* response.json() of q settles. A body that parses and renders gives the answer
\* (or, after a non-ok status, the compliance error text); a body that does not
\* parse, or one addMessage throws on before appending anything, goes to the
\* catch block, which removes a typing indicator and appends the error message.
bodySettles(q, body) ==
    /\ q \in queries
    /\ q.pc \in {"json", "errorJson"}
    /\ IF body = "wellFormed"
       THEN Completes(q, IF q.pc = "json" THEN "answer" ELSE "error", typingIndicators)
       ELSE Completes(q, "error", RemoveTypingIndicator(typingIndicators))
    /\ lastSubmit' = "none"
    /\ UNCHANGED <<documents, mahareraDocuments, selectedUserDocIds, selectedMahareraIds,
                   selectedDocument, selectAllUserDocs, selectAllMaharera,
                   deleteMahareraBtnDisabled, pendingDocuments, pendingMaharera,
                   pendingStatus, deleting, netCalls>>

BodySettles ==
    \E q \in queries, body \in {"wellFormed", "malformed", "unparsable"} :
        bodySettles(q, body)

----
SelectionNext ==
    \/ ToggleUserDoc /\ UNCHANGED auxVars
    \/ toggleSelectAllUserDocs /\ UNCHANGED auxVars
    \/ ToggleMaharera /\ UNCHANGED auxVars
    \/ toggleSelectAllMaharera /\ UNCHANGED auxVars
    \/ loadDocuments /\ UNCHANGED auxVars
    \/ LoadDocumentsSettles /\ UNCHANGED auxVars
    \/ LoadMahareraDocumentsSettles /\ UNCHANGED auxVars
    \/ checkServerStatus /\ UNCHANGED auxVars
    \/ CheckServerStatusSettles /\ UNCHANGED auxVars
    \/ DeleteDocument /\ UNCHANGED auxVars
    \/ DeleteDocumentSettles /\ UNCHANGED auxVars
    \/ deleteMahareraDocuments /\ UNCHANGED auxVars
    \/ DeleteMahareraDocumentsSettles /\ UNCHANGED auxVars

\* The listings a response can carry while queries are followed.
QueryUserFiles == UserFiles
QueryRegFiles == {"rera_act.pdf"}

\* loadDocuments from its call to the end of its continuation, with no other
\* event between the request and the response.
refreshDocuments(outcome, listing) ==
    /\ LoadDocumentsEffect(outcome, listing)
    /\ lastSubmit' = "none"
    /\ UNCHANGED <<mahareraDocuments, selectedUserDocIds, selectedMahareraIds,
                   selectedDocument, selectAllMaharera, checkComplianceBtnDisabled,
                   batchProcessBtnDisabled, deleteMahareraBtnDisabled, pendingDocuments,
                   pendingMaharera, pendingStatus, deleting, queryVars>>

RefreshDocuments ==
    \E outcome \in {"ok", "failed"}, listing \in SUBSET QueryUserFiles :
        /\ outcome = "failed" => listing = {}
        /\ refreshDocuments(outcome, listing)

\* loadMahareraDocuments likewise.
refreshMahareraDocuments(outcome, listing) ==
    /\ LoadMahareraDocumentsEffect(outcome, listing)
    /\ lastSubmit' = "none"
    /\ UNCHANGED <<documents, selectedUserDocIds, selectedMahareraIds, selectedDocument,
                   selectAllUserDocs, deleteMahareraBtnDisabled, pendingDocuments,
                   pendingMaharera, pendingStatus, deleting, queryVars>>

RefreshMahareraDocuments ==
    \E outcome \in {"ok", "failed"}, listing \in SUBSET QueryRegFiles :
        /\ outcome = "failed" => listing = {}
        /\ refreshMahareraDocuments(outcome, listing)

QueryNext ==
    \/ SendMessage /\ UNCHANGED auxVars
    \/ checkCompliance /\ UNCHANGED auxVars
    \/ FetchSettles /\ UNCHANGED auxVars
    \/ BodySettles /\ UNCHANGED auxVars
    \/ ToggleUserDoc /\ UNCHANGED auxVars
    \/ toggleSelectAllUserDocs /\ UNCHANGED auxVars
    \/ ToggleMaharera /\ UNCHANGED auxVars
    \/ toggleSelectAllMaharera /\ UNCHANGED auxVars
    \/ RefreshDocuments /\ UNCHANGED auxVars
    \/ RefreshMahareraDocuments /\ UNCHANGED auxVars

\* The selection store with its listings and deletes.
Next == SelectionNext

Spec == Init /\ [][Next]_vars

\* The query orchestrator, with the selection store as its environment.
SpecQuery == Init /\ [][QueryNext]_vars

\* The exported toggle functions (window.toggleUserDocSelection,
\* window.toggleMahareraSelection) called with any filename.
DirectToggle ==
    \/ \E filename \in UserFiles : toggleUserDocSelection(filename) /\ UNCHANGED auxVars
    \/ \E filename \in RegFiles : toggleMahareraSelection(filename) /\ UNCHANGED auxVars

SpecDirect == Init /\ [][Next \/ DirectToggle]_vars

\* Every network call eventually resolves or rejects, and a body that is being
\* read is eventually read or fails to parse.
FetchSettlesOf(id) ==
    \E q \in queries, outcome \in {"ok", "httpError", "networkError"} :
        q.id = id /\ fetchSettles(q, outcome) /\ UNCHANGED auxVars

BodySettlesOf(id) ==
    \E q \in queries, body \in {"wellFormed", "malformed", "unparsable"} :
        q.id = id /\ bodySettles(q, body) /\ UNCHANGED auxVars

SpecQueryFair ==
    /\ SpecQuery
    /\ \A id \in 1..MaxQueries : WF_vars(FetchSettlesOf(id)) /\ WF_vars(BodySettlesOf(id))

----
\* The selection store on its own: a listing of up to three user documents and
\* up to two regulatory documents has been loaded and rendered, and the user
\* toggles and selects all; each operation leaves its name and the selection it
\* found behind.

StoreFiles == {"agreement.pdf", "lease.pdf", "deed.pdf"}

\* The select-all box of a listing: rendered, or, for an empty listing, also as
\* the page delivered it.
StartControls(listing) ==
    {RenderDocumentList([checked |-> FALSE, indeterminate |-> FALSE, disabled |-> FALSE],
                        listing)}
    \cup (IF listing = {}
          THEN [checked : {FALSE}, indeterminate : {FALSE}, disabled : BOOLEAN]
          ELSE {})

StoreInit ==
    /\ documents \in SUBSET StoreFiles
    /\ mahareraDocuments \in SUBSET RegFiles
    /\ selectedUserDocIds = {}
    /\ selectedMahareraIds = {}
    /\ selectedDocument = Null
    /\ isLoading = FALSE
    /\ chatHistory = <<>>
    /\ selectAllUserDocs \in StartControls(documents)
    /\ selectAllMaharera \in StartControls(mahareraDocuments)
    /\ checkComplianceBtnDisabled = TRUE
    /\ batchProcessBtnDisabled = TRUE
    /\ sendBtnDisabled = FALSE
    /\ deleteMahareraBtnDisabled = FALSE
    /\ typingIndicators = 0
    /\ uncaught = 0
    /\ pendingDocuments = 0
    /\ pendingMaharera = 0
    /\ pendingStatus = 0
    /\ deleting = {}
    /\ queries = {}
    /\ netCalls = 0
    /\ lastSubmit = "none"
    /\ AuxInit

\* What an operation op(arg) on a selection leaves behind.
Remember(op, arg, selection) ==
    /\ lastOp' = [op |-> op, arg |-> arg]
    /\ prevOp' = lastOp
    /\ selBefore' = selection
    /\ selBefore2' = IF lastOp.op \in {op, "none"} THEN selBefore ELSE {}

CheckedArg(control) == IF control.checked THEN "checked" ELSE "unchecked"

\* A click on a rendered checkbox, or a call of the exported function.
StoreToggleUserDoc ==
    \E filename \in StoreFiles :
        /\ toggleUserDocSelection(filename)
        /\ Remember("toggleUserDocSelection", filename, selectedUserDocIds)
        /\ UNCHANGED extVars

StoreToggleMaharera ==
    \E filename \in RegFiles :
        /\ toggleMahareraSelection(filename)
        /\ Remember("toggleMahareraSelection", filename, selectedMahareraIds)
        /\ UNCHANGED extVars

StoreSelectAllUserDocs ==
    /\ toggleSelectAllUserDocs
    /\ Remember("toggleSelectAllUserDocs", CheckedArg(selectAllUserDocs'), selectedUserDocIds)
    /\ UNCHANGED extVars

StoreSelectAllMaharera ==
    /\ toggleSelectAllMaharera
    /\ Remember("toggleSelectAllMaharera", CheckedArg(selectAllMaharera'), selectedMahareraIds)
    /\ UNCHANGED extVars

StoreNext ==
    \/ StoreToggleUserDoc
    \/ StoreToggleMaharera
    \/ StoreSelectAllUserDocs
    \/ StoreSelectAllMaharera

SpecStore == StoreInit /\ [][StoreNext]_vars

----
\* Batch processing dialog.

\* At most MaxBatches /batch-process requests are issued in one run.
\* The response of a batch and the entries of its result message.

MaxResults == 5

\* The i-th document of a batch.
File(i) == "doc" \o ToString(i) \o ".pdf"

\* A field the backend left out of an entry.
Undefined == [type |-> "undefined"]

\* What the backend says of one document, as far as the client reads it: an
\* error entry has no red_flags and no compliance_summary; a processed entry has
\* red_flags (here its length) and may have a compliance_summary.
EntryKinds ==
    {[status |-> "error", red_flags |-> Undefined, compliance_summary |-> Undefined],
     [status |-> "success", red_flags |-> Num(0), compliance_summary |-> Undefined],
     [status |-> "success", red_flags |-> Num(0),
      compliance_summary |-> [compliant_count |-> 3, total_checks |-> 3]],
     [status |-> "success", red_flags |-> Num(3),
      compliance_summary |-> [compliant_count |-> 2, total_checks |-> 3]],
     [status |-> "success", red_flags |-> Num(5),
      compliance_summary |-> [compliant_count |-> 1, total_checks |-> 3]]}

\* data.results of a batch of n documents, one entry per document id sent.
ResultsOf(kinds) ==
    [i \in DOMAIN kinds |->
        [filename |-> File(i), status |-> kinds[i].status, red_flags |-> kinds[i].red_flags,
         compliance_summary |-> kinds[i].compliance_summary]]

BatchResults ==
    UNION {{ResultsOf(kinds) : kinds \in [1..n -> EntryKinds]} : n \in 1..MaxResults}

\* The entries of results that were processed.
Processed(results) == {i \in DOMAIN results : results[i].status # "error"}

\* data.summary as the backend aggregates it over the entries.
SummaryOf(results) ==
    [total_documents |-> Len(results),
     processed |-> Cardinality(Processed(results))]

\* result.red_flags?.length || 0
RedFlagCount(result) ==
    IF result.red_flags.type = "number" THEN result.red_flags.value ELSE 0

\* result.compliance_summary?.compliant_count || 0 and ...?.total_checks || 0
ClauseRatio(result) ==
    IF result.compliance_summary = Undefined
    THEN <<0, 0>>
    ELSE <<result.compliance_summary.compliant_count, result.compliance_summary.total_checks>>

\* Nothing of an entry is shown.
NoItem ==
    [filename |-> "", error |-> FALSE, redFlags |-> 0, ratio |-> <<0, 0>>, listed |-> 0,
     more |-> 0]

\* An entry that shows the file name and the error only.
ResultItemWithoutCounts(result) ==
    [NoItem EXCEPT !.filename = result.filename, !.error = result.status = "error"]

\* The entry of the result message for one result: the file name, and either
\* the error or the red-flag count and the clause ratio.
ResultItem(result) ==
    IF result.status = "error"
    THEN [NoItem EXCEPT !.filename = result.filename, !.error = TRUE]
    ELSE [NoItem EXCEPT !.filename = result.filename, !.redFlags = RedFlagCount(result),
                        !.ratio = ClauseRatio(result)]

\* results.map(...) of displayBatchResults
ResultItems(results) == [i \in DOMAIN results |-> ResultItem(results[i])]


MaxBatches == 2

HiddenProgress(progress) == [progress EXCEPT !.display = FALSE, !.width = 0]

FailedProgress(progress, text) == [progress EXCEPT !.text = text, !.background = "red"]

\* A dialog that offers every listed document, selected or not.
openBatchModalListingAll ==
    /\ ~batchProcessBtnDisabled
    /\ IF selectedUserDocIds = {}
       THEN UNCHANGED batchVars
       ELSE /\ batchDocList' = documents
            /\ batchChecked' = batchDocList'
            /\ batchProgress' = HiddenProgress(batchProgress)
            /\ batchModalActive' = TRUE
            /\ UNCHANGED <<startBatchBtnDisabled, batchRequests, batchCalls, batchResultsShown>>
    /\ lastSubmit' = "none"
    /\ UNCHANGED <<selVars, queryVars, obsVars, pendingUsage, reportsSaved, focus, requestVars, report, probe>>

\* A click on the enabled batch button. With nothing selected it alerts and
\* returns; otherwise the dialog lists the listed documents that are selected,
\* all checked, and opens with the progress bar reset.
openBatchModal ==
    /\ ~batchProcessBtnDisabled
    /\ IF selectedUserDocIds = {}
       THEN UNCHANGED batchVars
       ELSE /\ batchDocList' = {f \in documents : f \in selectedUserDocIds}
            /\ batchChecked' = batchDocList'
            /\ batchProgress' = HiddenProgress(batchProgress)
            /\ batchModalActive' = TRUE
            /\ UNCHANGED <<startBatchBtnDisabled, batchRequests, batchCalls, batchResultsShown>>
    /\ lastSubmit' = "none"
    /\ UNCHANGED <<selVars, queryVars, obsVars, pendingUsage, reportsSaved, focus, requestVars, report, probe>>

\* A close that gives up the requests in flight.
closeBatchModalAborting ==
    /\ batchModalActive
    /\ batchModalActive' = FALSE
    /\ batchRequests' = {}
    /\ lastSubmit' = "none"
    /\ UNCHANGED <<batchDocList, batchChecked, startBatchBtnDisabled, batchProgress,
                   batchCalls, batchResultsShown>>
    /\ UNCHANGED <<selVars, queryVars, obsVars, pendingUsage, reportsSaved, focus, requestVars, report, probe>>

\* The close button, the cancel button or a click on the backdrop.
closeBatchModal ==
    /\ batchModalActive
    /\ batchModalActive' = FALSE
    /\ lastSubmit' = "none"
    /\ UNCHANGED <<batchDocList, batchChecked, startBatchBtnDisabled, batchProgress,
                   batchRequests, batchCalls, batchResultsShown>>
    /\ UNCHANGED <<selVars, queryVars, obsVars, pendingUsage, reportsSaved, focus, requestVars, report, probe>>

\* A click on the checkbox of a document in the dialog.
toggleBatchCheckbox(f) ==
    /\ batchModalActive
    /\ f \in batchDocList
    /\ batchChecked' = IF f \in batchChecked THEN batchChecked \ {f} ELSE batchChecked \cup {f}
    /\ lastSubmit' = "none"
    /\ UNCHANGED <<batchModalActive, batchDocList, startBatchBtnDisabled, batchProgress,
                   batchRequests, batchCalls, batchResultsShown>>
    /\ UNCHANGED <<selVars, queryVars, obsVars, pendingUsage, reportsSaved, focus, requestVars, report, probe>>

ToggleBatchCheckbox == \E f \in batchDocList : toggleBatchCheckbox(f)

\* A batch start that takes the documents it sends out of the selection.
startBatchProcessingConsuming ==
    /\ batchModalActive
    /\ ~startBatchBtnDisabled
    /\ batchChecked # {}
    /\ batchCalls < MaxBatches
    /\ batchProgress' = [batchProgress EXCEPT !.display = TRUE, !.width = 10,
                                              !.text = "starting"]
    /\ startBatchBtnDisabled' = TRUE
    /\ batchRequests' = batchRequests \cup
           {[id |-> batchCalls + 1, documentIds |-> batchChecked,
             mahareraIds |-> selectedMahareraIds, pc |-> "fetch"]}
    /\ batchCalls' = batchCalls + 1
    /\ selectedUserDocIds' = selectedUserDocIds \ batchChecked
    /\ lastSubmit' = "batch:accepted"
    /\ UNCHANGED <<batchModalActive, batchDocList, batchChecked, batchResultsShown>>
    /\ UNCHANGED <<documents, mahareraDocuments, selectedMahareraIds, selectedDocument,
                   selectAllUserDocs, selectAllMaharera, checkComplianceBtnDisabled,
                   batchProcessBtnDisabled, deleteMahareraBtnDisabled, pendingDocuments,
                   pendingMaharera, pendingStatus, deleting>>
    /\ UNCHANGED <<queryVars, obsVars, pendingUsage, reportsSaved, focus, requestVars, report, probe>>

\* A batch start that leaves the start button enabled.
startBatchProcessingLeavingButton ==
    /\ batchModalActive
    /\ ~startBatchBtnDisabled
    /\ IF batchChecked = {}
       THEN UNCHANGED batchVars
       ELSE /\ batchCalls < MaxBatches
            /\ batchProgress' = [batchProgress EXCEPT !.display = TRUE, !.width = 10,
                                                      !.text = "starting"]
            /\ batchRequests' = batchRequests \cup
                   {[id |-> batchCalls + 1, documentIds |-> batchChecked,
                     mahareraIds |-> selectedMahareraIds, pc |-> "fetch"]}
            /\ batchCalls' = batchCalls + 1
            /\ UNCHANGED <<batchModalActive, batchDocList, batchChecked, batchResultsShown,
                           startBatchBtnDisabled>>
    /\ lastSubmit' = IF batchChecked = {} THEN "batch:empty" ELSE "batch:accepted"
    /\ UNCHANGED <<selVars, queryVars, obsVars, pendingUsage, reportsSaved, focus, requestVars, report, probe>>

\* startBatchProcessing up to its await: the checked boxes of the dialog are the
\* document ids; with none it alerts and returns.
startBatchProcessing ==
    /\ batchModalActive
    /\ ~startBatchBtnDisabled
    /\ IF batchChecked = {}
       THEN UNCHANGED batchVars
       ELSE /\ batchCalls < MaxBatches
            /\ batchProgress' = [batchProgress EXCEPT !.display = TRUE, !.width = 10,
                                                      !.text = "starting"]
            /\ startBatchBtnDisabled' = TRUE
            /\ batchRequests' = batchRequests \cup
                   {[id |-> batchCalls + 1, documentIds |-> batchChecked,
                     mahareraIds |-> selectedMahareraIds, pc |-> "fetch"]}
            /\ batchCalls' = batchCalls + 1
            /\ UNCHANGED <<batchModalActive, batchDocList, batchChecked, batchResultsShown>>
    /\ lastSubmit' = IF batchChecked = {} THEN "batch:empty" ELSE "batch:accepted"
    /\ UNCHANGED <<selVars, queryVars, obsVars, pendingUsage, reportsSaved, focus, requestVars, report, probe>>

\* The fetch of a batch request settles: a rejection goes to the catch block and
\* the finally block; a response moves the bar to 70% and its body is read.
batchFetchSettles(b, outcome) ==
    /\ b \in batchRequests
    /\ b.pc = "fetch"
    /\ IF outcome = "networkError"
       THEN /\ batchProgress' = FailedProgress(batchProgress, "failed")
            /\ batchRequests' = batchRequests \ {b}
            /\ startBatchBtnDisabled' = FALSE
       ELSE /\ batchProgress' = [batchProgress EXCEPT !.width = 70, !.text = "processing"]
            /\ batchRequests' = (batchRequests \ {b}) \cup
                   {[b EXCEPT !.pc = IF outcome = "ok" THEN "json" ELSE "errorJson"]}
            /\ UNCHANGED startBatchBtnDisabled
    /\ lastSubmit' = "none"
    /\ UNCHANGED <<batchModalActive, batchDocList, batchChecked, batchCalls, batchResultsShown>>
    /\ UNCHANGED <<selVars, queryVars, obsVars, pendingUsage, reportsSaved, focus, requestVars, report, probe>>

BatchFetchSettles ==
    \E b \in batchRequests, outcome \in {"ok", "httpError", "networkError"} :
        batchFetchSettles(b, outcome)

\* response.json() of a batch request settles. After an ok response the bar
\* goes to 100% and the results are shown by a timer; after an error response
\* the error text is shown; a body that does not parse goes to the catch block.
\* The finally block enables the start button in every case.
batchBodySettles(b, parsed) ==
    /\ b \in batchRequests
    /\ b.pc \in {"json", "errorJson"}
    /\ IF parsed /\ b.pc = "json"
       THEN /\ batchProgress' = [batchProgress EXCEPT !.width = 100, !.text = "complete"]
            /\ batchRequests' = (batchRequests \ {b}) \cup {[b EXCEPT !.pc = "timer"]}
       ELSE /\ batchProgress' =
                   FailedProgress(batchProgress, IF parsed THEN "error" ELSE "failed")
            /\ batchRequests' = batchRequests \ {b}
    /\ startBatchBtnDisabled' = FALSE
    /\ lastSubmit' = "none"
    /\ UNCHANGED <<batchModalActive, batchDocList, batchChecked, batchCalls, batchResultsShown>>
    /\ UNCHANGED <<selVars, queryVars, obsVars, pendingUsage, reportsSaved, focus, requestVars, report, probe>>

BatchBodySettles ==
    \E b \in batchRequests, parsed \in BOOLEAN : batchBodySettles(b, parsed)

\* The 500 ms timer of a completed batch: closeBatchModal and
\* displayBatchResults, which appends the result message to the chat.
batchTimerFires(b) ==
    /\ b \in batchRequests
    /\ b.pc = "timer"
    /\ batchModalActive' = FALSE
    /\ batchResultsShown' = batchResultsShown + 1
    /\ batchRequests' = batchRequests \ {b}
    /\ probe' = IF probe.fn = "displayBatchResults"
                THEN [probe EXCEPT !.items = ResultItems(probe.data.results)]
                ELSE probe
    /\ lastSubmit' = "none"
    /\ UNCHANGED <<batchDocList, batchChecked, startBatchBtnDisabled, batchProgress, batchCalls>>
    /\ UNCHANGED <<selVars, queryVars, obsVars, pendingUsage, reportsSaved, focus, requestVars, report>>

BatchTimerFires == \E b \in batchRequests : batchTimerFires(b)

----
\* Usage poll and report download.

\* fetchApiUsage up to its await: the 30 s timer, the refresh button, the panel.
fetchApiUsage ==
    /\ pendingUsage < MaxPending
    /\ pendingUsage' = pendingUsage + 1
    /\ lastSubmit' = "none"
    /\ UNCHANGED <<selVars, queryVars, obsVars, batchVars, reportsSaved, focus, requestVars, report, probe>>

\* Its continuation: the counters on the page are rewritten or, on any failure,
\* left alone; nothing else is touched.
fetchApiUsageSettles ==
    /\ pendingUsage > 0
    /\ pendingUsage' = pendingUsage - 1
    /\ lastSubmit' = "none"
    /\ UNCHANGED <<selVars, queryVars, obsVars, batchVars, reportsSaved, focus, requestVars, report, probe>>

\* At most MaxReports reports are downloaded in one run.
MaxReports == 1

\* The download button of an assistant answer: generateComplianceReport lays
\* the report out from the data kept with the message and saves it. Its layout
\* is followed step by step in SpecReport.
generateComplianceReport ==
    /\ \E i \in DOMAIN chatHistory : chatHistory[i][1] = "assistant" /\ chatHistory[i][2] = "answer"
    /\ reportsSaved < MaxReports
    /\ reportsSaved' = reportsSaved + 1
    /\ lastSubmit' = "none"
    /\ UNCHANGED <<selVars, queryVars, obsVars, batchVars, pendingUsage, focus, requestVars, report, probe>>

----
\* The whole page around the two selections: submits, batch, report, polls
\* and listing refreshes next to the selection operations.
\* What else than selecting goes on in a run of SpecFrame: one kind of activity
\* per run.
Activities == {"query", "batch", "poll"}

\* Both listings have been loaded and rendered, nothing is selected, no request
\* is outstanding.
LoadedPage(userListing, regListing) ==
    /\ documents = userListing
    /\ mahareraDocuments = regListing
    /\ selectedUserDocIds = {}
    /\ selectedMahareraIds = {}
    /\ selectedDocument = Null
    /\ isLoading = FALSE
    /\ chatHistory = <<>>
    /\ selectAllUserDocs = [checked |-> FALSE, indeterminate |-> FALSE, disabled |-> FALSE]
    /\ selectAllMaharera = [checked |-> FALSE, indeterminate |-> FALSE, disabled |-> FALSE]
    /\ checkComplianceBtnDisabled = TRUE
    /\ batchProcessBtnDisabled = TRUE
    /\ sendBtnDisabled = FALSE
    /\ deleteMahareraBtnDisabled = FALSE
    /\ typingIndicators = 0
    /\ uncaught = 0
    /\ pendingDocuments = 0
    /\ pendingMaharera = 0
    /\ pendingStatus = 0
    /\ deleting = {}
    /\ queries = {}
    /\ netCalls = 0
    /\ lastSubmit = "none"
    /\ ObsInit
    /\ BatchInit
    /\ pendingUsage = 0
    /\ reportsSaved = 0

FrameInit ==
    /\ LoadedPage(UserFiles, RegFiles)
    /\ focus \in Activities
    /\ RequestInit
    /\ report = IdleReport
    /\ probe = NoProbe

FrameNext ==
    \/ ToggleUserDoc /\ UNCHANGED auxVars
    \/ toggleSelectAllUserDocs /\ UNCHANGED auxVars
    \/ ToggleMaharera /\ UNCHANGED auxVars
    \/ toggleSelectAllMaharera /\ UNCHANGED auxVars
    \/ focus = "query" /\ SendMessage /\ UNCHANGED auxVars
    \/ focus = "query" /\ checkCompliance /\ UNCHANGED auxVars
    \/ focus = "query" /\ FetchSettles /\ UNCHANGED auxVars
    \/ focus = "query" /\ BodySettles /\ UNCHANGED auxVars
    \/ focus = "query" /\ generateComplianceReport
    \/ focus = "batch" /\ openBatchModal
    \/ focus = "batch" /\ closeBatchModal
    \/ focus = "batch" /\ startBatchProcessing
    \/ focus = "batch" /\ BatchFetchSettles
    \/ focus = "batch" /\ BatchBodySettles
    \/ focus = "batch" /\ BatchTimerFires
    \/ focus = "poll" /\ loadDocuments /\ UNCHANGED auxVars
    \/ focus = "poll" /\ checkServerStatus /\ UNCHANGED auxVars
    \/ focus = "poll" /\ CheckServerStatusSettles /\ UNCHANGED auxVars
    \/ focus = "poll" /\ LoadDocumentsSettles /\ UNCHANGED auxVars
    \/ focus = "poll" /\ LoadMahareraDocumentsSettles /\ UNCHANGED auxVars
    \/ focus = "poll" /\ fetchApiUsage
    \/ focus = "poll" /\ fetchApiUsageSettles

SpecFrame == FrameInit /\ [][FrameNext]_vars

\* The two 30-second timers next to the orchestrator: status and usage polls
\* and the listing refreshes a status poll starts, while questions and
\* compliance checks are submitted and answered.
PollStart ==
    /\ LoadedPage(QueryUserFiles, QueryRegFiles)
    /\ focus = "poll"
    /\ RequestInit
    /\ report = IdleReport
    /\ probe = NoProbe

\* Nothing is uploaded or deleted meanwhile: a listing that arrives is the
\* one already held.
PollListing(outcome, files) == IF outcome = "ok" THEN files ELSE {}

PollNext ==
    \/ ToggleUserDoc /\ UNCHANGED auxVars
    \/ ToggleMaharera /\ UNCHANGED auxVars
    \/ sendMessage(<<"q">>) /\ UNCHANGED auxVars
    \/ checkCompliance /\ UNCHANGED auxVars
    \/ FetchSettles /\ UNCHANGED auxVars
    \/ BodySettles /\ UNCHANGED auxVars
    \/ checkServerStatus /\ UNCHANGED auxVars
    \/ CheckServerStatusSettles /\ UNCHANGED auxVars
    \/ \E outcome \in {"ok", "failed"} :
            loadDocumentsSettles(outcome, PollListing(outcome, QueryUserFiles))
            /\ UNCHANGED auxVars
    \/ \E outcome \in {"ok", "failed"} :
            loadMahareraDocumentsSettles(outcome, PollListing(outcome, QueryRegFiles))
            /\ UNCHANGED auxVars
    \/ fetchApiUsage
    \/ fetchApiUsageSettles

SpecPoll == PollStart /\ [][PollNext]_vars

----
\* The batch dialog alone: the page is loaded, and the user selects documents
\* and works the dialog while the backend answers.
BatchStart ==
    /\ LoadedPage(UserFiles, QueryRegFiles)
    /\ focus = "batch"
    /\ RequestInit
    /\ report = IdleReport
    /\ probe = NoProbe

BatchNext ==
    \/ ToggleUserDoc /\ UNCHANGED auxVars
    \/ ToggleMaharera /\ UNCHANGED auxVars
    \/ openBatchModal
    \/ closeBatchModal
    \/ ToggleBatchCheckbox
    \/ startBatchProcessing
    \/ BatchFetchSettles
    \/ BatchBodySettles
    \/ BatchTimerFires

SpecBatch == BatchStart /\ [][BatchNext]_vars

\* Every fetch settles, every body is read or fails to parse, and every timer
\* fires.
SpecBatchFair ==
    /\ SpecBatch
    /\ WF_vars(BatchFetchSettles)
    /\ WF_vars(BatchBodySettles)
    /\ WF_vars(BatchTimerFires)

----
\* The bodies of the /query requests, and the top-K setting they carry.

\* What the user may leave in the top-K input when its change event fires.
TopKInputs == {<<"5">>, <<"-", "1">>, <<>>}

DigitValue ==
    [c \in {"0", "1", "2", "3", "4", "5", "6", "7", "8", "9"} |->
        CASE c = "0" -> 0 [] c = "1" -> 1 [] c = "2" -> 2 [] c = "3" -> 3 [] c = "4" -> 4
          [] c = "5" -> 5 [] c = "6" -> 6 [] c = "7" -> 7 [] c = "8" -> 8 [] c = "9" -> 9]

\* The digits s starts with, as far as they go.
RECURSIVE LeadingDigits(_)
LeadingDigits(s) ==
    IF s = <<>> \/ Head(s) \notin DOMAIN DigitValue
    THEN <<>>
    ELSE <<Head(s)>> \o LeadingDigits(Tail(s))

RECURSIVE DecimalValue(_, _)
DecimalValue(digits, acc) ==
    IF digits = <<>>
    THEN acc
    ELSE DecimalValue(Tail(digits), 10 * acc + DigitValue[Head(digits)])

\* parseInt(text): leading white space is skipped, a sign is read, then the
\* digits as far as they go; with no digit there the result is NaN.
ParseInt(text) ==
    LET s == TrimStart(text)
        negative == s # <<>> /\ Head(s) = "-"
        signed == s # <<>> /\ Head(s) \in {"-", "+"}
        digits == LeadingDigits(IF signed THEN Tail(s) ELSE s)
    IN  IF digits = <<>>
        THEN NaN
        ELSE IF negative THEN Num(0 - DecimalValue(digits, 0)) ELSE Num(DecimalValue(digits, 0))

\* JSON.stringify of a number: NaN is written as null.
Stringify(v) == IF v.type = "number" THEN v ELSE JsonNull

\* state.settings.topK after initializeApp, when an earlier visit saved v:
\* JSON.parse gives back what JSON.stringify wrote.
Restored(v) == Stringify(v)

\* A body that sends an empty selection as an empty array.
SelectionOrNullKeepingEmpty(selected) == JsonArray(selected)

\* selected.length > 0 ? selected : null
SelectionOrNull(selected) == IF selected = {} THEN JsonNull ELSE JsonArray(selected)

\* The body sendMessage posts. The language field is not followed.
QueryBody(message, k, selectedUserDocs, selectedMaharera) ==
    [question           |-> [type |-> "text", text |-> message],
     top_k              |-> Stringify(k),
     selected_documents |-> SelectionOrNull(selectedUserDocs),
     selected_maharera  |-> SelectionOrNull(selectedMaharera),
     compliance_check   |-> "absent"]

\* A compliance body that carries the user's top-K setting.
ComplianceBodyWithSetting(k, selectedUserDocs, selectedDocs) ==
    [question           |-> [type |-> "complianceQuestion",
                             userDocName |-> IF selectedUserDocs = {}
                                             THEN [type |-> "text",
                                                   text |-> <<"all user documents">>]
                                             ELSE JsonArray(selectedUserDocs),
                             docNames |-> selectedDocs],
     top_k              |-> Stringify(k),
     selected_documents |-> SelectionOrNull(selectedUserDocs),
     selected_maharera  |-> JsonArray(selectedDocs),
     compliance_check   |-> "true"]

\* The body checkCompliance posts: the question is the template text around the
\* names of the selected documents, top_k is the literal 10, and the regulatory
\* selection goes as it is.
ComplianceBody(k, selectedUserDocs, selectedDocs) ==
    [question           |-> [type |-> "complianceQuestion",
                             userDocName |-> IF selectedUserDocs = {}
                                             THEN [type |-> "text",
                                                   text |-> <<"all user documents">>]
                                             ELSE JsonArray(selectedUserDocs),
                             docNames |-> selectedDocs],
     top_k              |-> Num(10),
     selected_documents |-> SelectionOrNull(selectedUserDocs),
     selected_maharera  |-> JsonArray(selectedDocs),
     compliance_check   |-> "true"]

\* The change listener of the top-K input.
topKInputChange(text) ==
    /\ topK' = ParseInt(text)
    /\ lastSubmit' = "none"
    /\ UNCHANGED <<selVars, queryVars, obsVars, batchVars, pendingUsage, reportsSaved, focus,
                   sent, report, probe>>

TopKInputChange == \E text \in TopKInputs : topKInputChange(text)

\* sendMessage, with the body it posts.
RequestSendMessage ==
    \E text \in Messages :
        /\ sendMessage(text)
        /\ sent' = IF SendRejected(Trim(text), isLoading)
                   THEN sent
                   ELSE sent \cup {[id |-> netCalls + 1,
                                    body |-> QueryBody(Trim(text), topK, selectedUserDocIds,
                                                       selectedMahareraIds)]}
        /\ UNCHANGED <<obsVars, batchVars, pendingUsage, reportsSaved, focus, topK, report, probe>>

\* checkCompliance, with the body it posts.
RequestCheckCompliance ==
    /\ checkCompliance
    /\ sent' = IF ComplianceValidation(selectedMahareraIds, documents) = "ok"
               THEN sent \cup {[id |-> netCalls + 1,
                                body |-> ComplianceBody(topK, selectedUserDocIds,
                                                        selectedMahareraIds)]}
               ELSE sent
    /\ UNCHANGED <<obsVars, batchVars, pendingUsage, reportsSaved, focus, topK, report, probe>>

\* The bodies of the requests whose handlers have not ended.
StillSent(remaining) == {r \in sent : \E q \in remaining : q.id = r.id}

\* The continuations of the two handlers; a request whose handler has ended is
\* followed no further.
RequestFetchSettles ==
    /\ FetchSettles
    /\ sent' = StillSent(queries')
    /\ UNCHANGED <<obsVars, batchVars, pendingUsage, reportsSaved, focus, topK, report, probe>>

RequestBodySettles ==
    /\ BodySettles
    /\ sent' = StillSent(queries')
    /\ UNCHANGED <<obsVars, batchVars, pendingUsage, reportsSaved, focus, topK, report, probe>>

\* The page as loaded, with the top-K setting of a first visit or the one an
\* earlier visit saved.
RequestStart ==
    /\ LoadedPage(QueryUserFiles, QueryRegFiles)
    /\ focus = "query"
    /\ topK \in {Num(3)} \cup {Restored(ParseInt(text)) : text \in TopKInputs}
    /\ sent = {}
    /\ report = IdleReport
    /\ probe = NoProbe

RequestNext ==
    \/ ToggleUserDoc /\ UNCHANGED auxVars
    \/ toggleSelectAllUserDocs /\ UNCHANGED auxVars
    \/ ToggleMaharera /\ UNCHANGED auxVars
    \/ toggleSelectAllMaharera /\ UNCHANGED auxVars
    \/ TopKInputChange
    \/ RequestSendMessage
    \/ RequestCheckCompliance
    \/ RequestFetchSettles
    \/ RequestBodySettles

SpecRequest == RequestStart /\ [][RequestNext]_vars

----
\* generateComplianceReport, step by step: one step per drawn line, banner or
\* cursor adjustment, the texts given by the number of lines splitTextToSize
\* wraps them to. The cursor is kept in half millimetres, the unit in which
\* every position the code computes is a whole number.
Mm(n) == 2 * n

\* doc.internal.pageSize.getHeight() of jsPDF's default page, A4 in mm.
pageHeight == Mm(297)

\* Where the cursor starts on a page.
topMargin == Mm(20)

\* What addText keeps free at the foot of a page.
bottomMargin == Mm(30)

\* yPos += fontSize * 0.5
LineHeight(fontSize) == fontSize

MaxMissing == 1
MaxFlags == 1
MaxItemLines == 2
MaxSources == 1
MaxContentLines == 32

\* The disclaimer is one fixed text; how many lines it wraps to is the font's
\* business.
DisclaimerLineCounts == {3, 4}

\* The calls the code makes, in the order it makes them.
Section(block) == [op |-> "section", block |-> block, size |-> 0, lines |-> 0]

Text(block, fontSize, lines) ==
    [op |-> "text", block |-> block, size |-> fontSize, lines |-> lines]

Move(block, dy) == [op |-> "move", block |-> block, size |-> dy, lines |-> 0]

StatusText == [op |-> "status", block |-> "summary", size |-> 11, lines |-> 1]

DisclaimerText(lines) ==
    [op |-> "disclaimer", block |-> "disclaimer", size |-> 8, lines |-> lines]

Repeat(op, n) == [i \in 1..n |-> op]

\* complianceSummary: absent, or the verdict with its three lists of missing
\* clauses (their lengths).
Summaries ==
    {[present |-> FALSE, is_compliant |-> TRUE, critical |-> 0, high |-> 0, medium |-> 0],
     [present |-> TRUE, is_compliant |-> TRUE, critical |-> 0, high |-> 0, medium |-> 0]}
    \cup [present : {TRUE}, is_compliant : {FALSE}, critical : 0..MaxMissing,
          high : 0..MaxMissing, medium : 0..MaxMissing]

\* One group of missing clauses: a heading, one line per clause, and after the
\* first two groups a gap.
MissingOps(count, gap) ==
    IF count > 0
    THEN <<Text("summary", 10, 1)>> \o Repeat(Text("summary", 9, 1), count)
         \o (IF gap THEN <<Move("summary", Mm(3))>> ELSE <<>>)
    ELSE <<>>

SummaryOps(s) ==
    IF ~s.present
    THEN <<>>
    ELSE <<Text("summary", 11, 1), Move("summary", 0 - Mm(7)), StatusText,
           Move("summary", Mm(7)), Text("summary", 10, 1), Move("summary", Mm(3))>>
         \o (IF s.is_compliant
             THEN <<Text("summary", 10, 1)>>
             ELSE MissingOps(s.critical, TRUE) \o MissingOps(s.high, TRUE)
                  \o MissingOps(s.medium, FALSE))

\* A red flag: the lines its reason wraps to, whether it names a file, and the
\* lines of the excerpt when it has one.
Flags ==
    {f \in [reasonLines : 1..MaxItemLines, filename : BOOLEAN, excerptLines : 0..MaxItemLines] :
        ~f.filename => f.excerptLines = 0}

RedFlagLists == UNION {[1..n -> Flags] : n \in 0..MaxFlags}

FlagOps(flag) ==
    <<Text("redflags", 10, 1), Text("redflags", 9, 1), Text("redflags", 9, flag.reasonLines)>>
    \o (IF flag.filename
        THEN <<Text("redflags", 9, 1)>>
             \o (IF flag.excerptLines > 0
                 THEN <<Text("redflags", 8, flag.excerptLines)>>
                 ELSE <<>>)
        ELSE <<>>)
    \o <<Move("redflags", Mm(3))>>

RECURSIVE AllFlagOps(_)
AllFlagOps(flags) ==
    IF flags = <<>> THEN <<>> ELSE FlagOps(Head(flags)) \o AllFlagOps(Tail(flags))

\* A red-flag block that goes back to add a line to the executive summary.
RedFlagOpsThenSummary(redFlags) ==
    <<Text("redflags", 10, 1), Text("summary", 10, 1)>>

RedFlagOps(redFlags) ==
    IF Len(redFlags) > 0
    THEN <<Text("redflags", 11, 1), Text("redflags", 9, 1), Move("redflags", Mm(5))>>
         \o AllFlagOps(redFlags)
    ELSE <<Text("redflags", 10, 1)>>

\* A sources block whose first call throws, which ends the build.
SourceOpsThrowing(count) ==
    <<[op |-> "throw", block |-> "sources", size |-> 0, lines |-> 0]>>

\* The sources, each with its filename line and its section line.
SourceOps(count) ==
    IF count > 0
    THEN <<Section("sources")>>
         \o [i \in 1..(2 * count) |->
                IF i % 2 = 1 THEN Text("sources", 10, 1) ELSE Text("sources", 9, 1)]
    ELSE <<>>

\* addText's page-break check, made before each line.
\* A check that also breaks when the cursor is exactly at the limit.
TextBreaksAtLimit(y) == y >= pageHeight - bottomMargin

TextBreaks(y) == y > pageHeight - bottomMargin

\* A check with the look-ahead of addText.
SectionBreaksLikeText(y) == y > pageHeight - bottomMargin

\* addSection's check, made after the cursor has moved down by 5.
SectionBreaks(y) == y > pageHeight - Mm(40)

\* The check made before each line of the disclaimer.
DisclaimerBreaks(y) == y > pageHeight - Mm(20)

\* A step of the build; only doc.save is seen outside it.
ReportStep(next) ==
    /\ report' = next
    /\ lastSubmit' = "none"
    /\ UNCHANGED <<selVars, queryVars, obsVars, batchVars, pendingUsage, focus, requestVars,
                   probe>>

\* The rest of the head call once one of its lines has been drawn.
AfterLine(ops) ==
    IF Head(ops).lines = 1
    THEN Tail(ops)
    ELSE <<[Head(ops) EXCEPT !.lines = @ - 1]>> \o Tail(ops)

\* A click on the download button of an assistant answer: a new document of
\* one page, the title banner with its two lines, and the cursor at 50.
reportTitle ==
    /\ report.pc = "idle"
    /\ \E i \in DOMAIN chatHistory : chatHistory[i][1] = "assistant" /\ chatHistory[i][2] = "answer"
    /\ reportsSaved < MaxReports
    /\ ReportStep([pc |-> "title", ops |-> <<>>, yPos |-> Mm(50), pageCount |-> 1,
                   footers |-> 0,
                   draw |-> [kind |-> "title", block |-> "title", page |-> 1, y |-> Mm(25),
                             bottom |-> Mm(35)]])
    /\ UNCHANGED reportsSaved

\* The build goes on to a block and the calls its data asks for.
EntersBlock(from, block, ops) ==
    /\ report.pc = from
    /\ report.ops = <<>>
    /\ ReportStep([report EXCEPT !.pc = block, !.ops = ops])
    /\ UNCHANGED reportsSaved

executiveSummary ==
    \E s \in Summaries :
        EntersBlock("title", "summary", <<Section("summary")>> \o SummaryOps(s))

redFlagAnalysis ==
    \E redFlags \in RedFlagLists :
        EntersBlock("summary", "redflags", <<Section("redflags")>> \o RedFlagOps(redFlags))

aiAnalysis ==
    \E lines \in 1..MaxContentLines :
        EntersBlock("redflags", "analysis", <<Section("analysis"), Text("analysis", 10, lines)>>)

documentSources ==
    \E count \in 0..MaxSources : EntersBlock("analysis", "sources", SourceOps(count))

disclaimer ==
    \E lines \in DisclaimerLineCounts :
        EntersBlock("sources", "disclaimer", <<Section("disclaimer"), DisclaimerText(lines)>>)

\* addSection(title)
addSection ==
    /\ report.ops # <<>>
    /\ Head(report.ops).op = "section"
    /\ LET moved == report.yPos + Mm(5)
           breaks == SectionBreaks(moved)
           y == IF breaks THEN topMargin ELSE moved
           page == IF breaks THEN report.pageCount + 1 ELSE report.pageCount
       IN  ReportStep([report EXCEPT
                          !.ops = Tail(@),
                          !.yPos = y + Mm(15),
                          !.pageCount = page,
                          !.draw = [kind |-> "section", block |-> Head(report.ops).block,
                                    page |-> page, y |-> y - Mm(5), bottom |-> y + Mm(5)]])
    /\ UNCHANGED reportsSaved

\* One turn of addText's loop, with the gap of 2 after the last line.
addTextLine ==
    /\ report.ops # <<>>
    /\ Head(report.ops).op = "text"
    /\ LET call == Head(report.ops)
           breaks == TextBreaks(report.yPos)
           y == IF breaks THEN topMargin ELSE report.yPos
           page == IF breaks THEN report.pageCount + 1 ELSE report.pageCount
       IN  ReportStep([report EXCEPT
                          !.ops = AfterLine(@),
                          !.yPos = y + LineHeight(call.size)
                                     + (IF call.lines = 1 THEN Mm(2) ELSE 0),
                          !.pageCount = page,
                          !.draw = [kind |-> "line", block |-> call.block, page |-> page,
                                    y |-> y, bottom |-> y]])
    /\ UNCHANGED reportsSaved

\* yPos += n, yPos -= n between the calls
moveCursor ==
    /\ report.ops # <<>>
    /\ Head(report.ops).op = "move"
    /\ ReportStep([report EXCEPT !.ops = Tail(@), !.yPos = @ + Head(report.ops).size])
    /\ UNCHANGED reportsSaved

\* doc.text(status, margin + 32, yPos)
statusText ==
    /\ report.ops # <<>>
    /\ Head(report.ops).op = "status"
    /\ ReportStep([report EXCEPT
                      !.ops = Tail(@),
                      !.draw = [kind |-> "status", block |-> "summary",
                                page |-> report.pageCount, y |-> report.yPos,
                                bottom |-> report.yPos]])
    /\ UNCHANGED reportsSaved

\* One line of the disclaimer.
disclaimerLine ==
    /\ report.ops # <<>>
    /\ Head(report.ops).op = "disclaimer"
    /\ LET breaks == DisclaimerBreaks(report.yPos)
           y == IF breaks THEN topMargin ELSE report.yPos
           page == IF breaks THEN report.pageCount + 1 ELSE report.pageCount
       IN  ReportStep([report EXCEPT
                          !.ops = AfterLine(@),
                          !.yPos = y + Mm(4),
                          !.pageCount = page,
                          !.draw = [kind |-> "disclaimer", block |-> "disclaimer",
                                    page |-> page, y |-> y, bottom |-> y]])
    /\ UNCHANGED reportsSaved

\* A footer loop without doc.setPage(i): every footer lands on the last page.
footerOnCurrentPage ==
    /\ \/ report.pc = "disclaimer" /\ report.ops = <<>>
       \/ report.pc = "footers"
    /\ report.footers < report.pageCount
    /\ ReportStep([report EXCEPT
                      !.pc = "footers",
                      !.footers = @ + 1,
                      !.draw = [kind |-> "footer", block |-> "footers",
                                page |-> report.pageCount, y |-> pageHeight - Mm(10),
                                bottom |-> pageHeight - Mm(10)]])
    /\ UNCHANGED reportsSaved

\* One turn of the footer loop: the two footer texts of the next page.
footer ==
    /\ \/ report.pc = "disclaimer" /\ report.ops = <<>>
       \/ report.pc = "footers"
    /\ report.footers < report.pageCount
    /\ ReportStep([report EXCEPT
                      !.pc = "footers",
                      !.footers = @ + 1,
                      !.draw = [kind |-> "footer", block |-> "footers",
                                page |-> report.footers + 1, y |-> pageHeight - Mm(10),
                                bottom |-> pageHeight - Mm(10)]])
    /\ UNCHANGED reportsSaved

\* doc.save(...)
save ==
    /\ report.pc = "footers"
    /\ report.footers = report.pageCount
    /\ ReportStep(IdleReport)
    /\ reportsSaved' = reportsSaved + 1

\* A compliance answer has arrived and is on the page with its download button.
AnswerOnPage ==
    /\ documents = UserFiles
    /\ mahareraDocuments = RegFiles
    /\ selectedUserDocIds = {}
    /\ selectedMahareraIds = {"rera_act.pdf"}
    /\ selectedDocument = Null
    /\ isLoading = FALSE
    /\ chatHistory = <<<<"user", "question", 1>>, <<"assistant", "answer", 1>>>>
    /\ selectAllUserDocs = [checked |-> FALSE, indeterminate |-> FALSE, disabled |-> FALSE]
    /\ selectAllMaharera = [checked |-> FALSE, indeterminate |-> TRUE, disabled |-> FALSE]
    /\ checkComplianceBtnDisabled = FALSE
    /\ batchProcessBtnDisabled = TRUE
    /\ sendBtnDisabled = FALSE
    /\ deleteMahareraBtnDisabled = FALSE
    /\ typingIndicators = 0
    /\ uncaught = 0
    /\ pendingDocuments = 0
    /\ pendingMaharera = 0
    /\ pendingStatus = 0
    /\ deleting = {}
    /\ queries = {}
    /\ netCalls = 1
    /\ lastSubmit = "none"
    /\ ObsInit
    /\ BatchInit
    /\ pendingUsage = 0
    /\ reportsSaved = 0
    /\ RequestInit

ReportInit ==
    /\ AnswerOnPage
    /\ focus = "report"
    /\ report = IdleReport
    /\ probe = NoProbe

ReportNext ==
    \/ reportTitle
    \/ executiveSummary
    \/ redFlagAnalysis
    \/ aiAnalysis
    \/ documentSources
    \/ disclaimer
    \/ addSection
    \/ addTextLine
    \/ moveCursor
    \/ statusText
    \/ disclaimerLine
    \/ footer
    \/ save

SpecReport == ReportInit /\ [][ReportNext]_vars

----
\* The same build as a function of its input: the calls in the order the code
\* makes them, and the cursor they leave.

\* data, as far as the layout depends on it.
ReportInputs ==
    [summary : Summaries, redFlags : RedFlagLists, contentLines : 1..MaxContentLines,
     sources : 0..MaxSources, disclaimerLines : DisclaimerLineCounts]

PlanOf(data) ==
    <<Section("summary")>> \o SummaryOps(data.summary)
    \o <<Section("redflags")>> \o RedFlagOps(data.redFlags)
    \o <<Section("analysis"), Text("analysis", 10, data.contentLines)>>
    \o SourceOps(data.sources)
    \o <<Section("disclaimer"), DisclaimerText(data.disclaimerLines)>>

\* addSection, on the cursor.
AfterSection(c) ==
    IF SectionBreaks(c.yPos + Mm(5))
    THEN [yPos |-> topMargin + Mm(15), pageCount |-> c.pageCount + 1]
    ELSE [yPos |-> c.yPos + Mm(5) + Mm(15), pageCount |-> c.pageCount]

\* One turn of addText's loop, on the cursor.
AfterTextLine(c, call) ==
    LET gap == IF call.lines = 1 THEN Mm(2) ELSE 0 IN
    IF TextBreaks(c.yPos)
    THEN [yPos |-> topMargin + LineHeight(call.size) + gap, pageCount |-> c.pageCount + 1]
    ELSE [yPos |-> c.yPos + LineHeight(call.size) + gap, pageCount |-> c.pageCount]

\* One line of the disclaimer, on the cursor.
AfterDisclaimerLine(c) ==
    IF DisclaimerBreaks(c.yPos)
    THEN [yPos |-> topMargin + Mm(4), pageCount |-> c.pageCount + 1]
    ELSE [yPos |-> c.yPos + Mm(4), pageCount |-> c.pageCount]

\* The turns of a call: one per wrapped line for a text, one for any other.
Turns(call) ==
    IF call.op \in {"text", "disclaimer"}
    THEN [k \in 1..call.lines |-> [call EXCEPT !.lines = call.lines - k + 1]]
    ELSE <<call>>

\* The turns of ops[lo..hi], in order.
RECURSIVE Unrolled(_, _, _)
Unrolled(ops, lo, hi) ==
    IF lo > hi THEN <<>>
    ELSE IF lo = hi THEN Turns(ops[lo])
    ELSE LET mid == (lo + hi) \div 2 IN Unrolled(ops, lo, mid) \o Unrolled(ops, mid + 1, hi)

\* One turn, on the cursor.
Turn(c, t) ==
    CASE t.op = "section" -> AfterSection(c)
      [] t.op = "text" -> AfterTextLine(c, t)
      [] t.op = "move" -> [c EXCEPT !.yPos = @ + t.size]
      [] t.op = "disclaimer" -> AfterDisclaimerLine(c)
      [] OTHER -> c

\* The cursor after turns[lo..hi], taken in order from cursor c (no turn takes a
\* page away).
RECURSIVE Run(_, _, _, _)
Run(turns, lo, hi, c) ==
    IF lo > hi THEN c
    ELSE IF lo = hi THEN Turn(c, turns[lo])
    ELSE LET mid == (lo + hi) \div 2
             half == Run(turns, lo, mid, c)
         IN  \* the first half is laid out before the second is begun
             IF half.pageCount >= c.pageCount THEN Run(turns, mid + 1, hi, half) ELSE half

\* doc.internal.getNumberOfPages() when the footer pass starts.
Pages(data) ==
    LET ops == PlanOf(data)
        turns == Unrolled(ops, 1, Len(ops))
    IN  Run(turns, 1, Len(turns), [yPos |-> Mm(50), pageCount |-> 1]).pageCount

\* The lists that are flags with one more flag at the end.
OneMoreFlag(flags) == {Append(flags, f) : f \in Flags} \cap RedFlagLists

\* The lists that are flags with one more line in one text of one flag.
OneMoreFlagLine(flags) ==
    UNION {{[flags EXCEPT ![i] = g] :
               g \in {f \in Flags :
                        /\ f.filename = flags[i].filename
                        /\ \/ /\ f.reasonLines = flags[i].reasonLines + 1
                              /\ f.excerptLines = flags[i].excerptLines
                           \/ /\ f.reasonLines = flags[i].reasonLines
                              /\ f.excerptLines = flags[i].excerptLines + 1}} :
           i \in DOMAIN flags}

\* The summaries that are s with one more missing clause in one group.
OneMoreMissing(s) ==
    IF s.present /\ ~s.is_compliant
    THEN {[s EXCEPT !.critical = @ + 1], [s EXCEPT !.high = @ + 1],
          [s EXCEPT !.medium = @ + 1]} \cap Summaries
    ELSE {}

\* The inputs that are data grown by one line of text or one item, everything
\* else equal.
Grown(data) ==
    ({[data EXCEPT !.contentLines = @ + 1], [data EXCEPT !.sources = @ + 1]}
     \cup {[data EXCEPT !.summary = t] : t \in OneMoreMissing(data.summary)}
     \cup {[data EXCEPT !.redFlags = l] :
              l \in OneMoreFlag(data.redFlags) \cup OneMoreFlagLine(data.redFlags)})
    \cap ReportInputs

ProbeStep(next) ==
    /\ probe' = next
    /\ lastSubmit' = "none"
    /\ UNCHANGED <<selVars, queryVars, obsVars, batchVars, pendingUsage, reportsSaved, focus,
                   requestVars, report>>

\* The report of data is laid out.
pagesLaidOut ==
    /\ probe.fn = "Pages"
    /\ probe.pages = 0
    /\ ProbeStep([probe EXCEPT !.pages = Pages(probe.data), !.before = Pages(probe.data)])

\* The report of the same data, grown, is laid out.
pagesLaidOutGrown ==
    /\ probe.fn = "Pages"
    /\ probe.pages > 0
    /\ \E g \in Grown(probe.data) :
          ProbeStep([probe EXCEPT !.data = g, !.before = probe.pages, !.pages = Pages(g)])

\* A build under way runs to its end: the function is synchronous.
ReportRun ==
    \/ executiveSummary
    \/ redFlagAnalysis
    \/ aiAnalysis
    \/ documentSources
    \/ disclaimer
    \/ addSection
    \/ addTextLine
    \/ moveCursor
    \/ statusText
    \/ disclaimerLine
    \/ footer
    \/ save

\* Either a build is followed step by step, or builds of growing inputs are
\* compared.
BuildInit ==
    /\ AnswerOnPage
    /\ report = IdleReport
    /\ \/ focus = "report" /\ probe = NoProbe
       \/ /\ focus = "pages"
          /\ \E data \in ReportInputs :
                probe = [fn |-> "Pages", data |-> data, pages |-> 0, before |-> 0]

BuildNext ==
    \/ focus = "report" /\ reportTitle
    \/ focus = "report" /\ ReportRun
    \/ pagesLaidOut
    \/ pagesLaidOutGrown

SpecBuild == BuildInit /\ [][BuildNext]_vars /\ WF_vars(ReportRun)

----
\* generateBatchPdfReport(summary, results), step by step on the same document
\* state as the single report; ops holds the results forEach has yet to visit.

\* checkPageBreak(needed)
PageBreak(y, needed) == y + needed > pageHeight - Mm(30)

\* A block that lists every red flag.
BlockItemListingAll(result) ==
    [ResultItem(result) EXCEPT !.listed = RedFlagCount(result)]

\* What the block of a result shows: the entry of the message, and for a
\* processed document red_flags.slice(0, 3) and the count of the rest.
BlockItem(result) ==
    LET count == RedFlagCount(result)
    IN  IF result.status = "error"
        THEN ResultItem(result)
        ELSE [ResultItem(result) EXCEPT
                 !.listed = IF count > 3 THEN 3 ELSE count,
                 !.more = IF count > 3 THEN count - 3 ELSE 0]

\* Something drawn by the batch report; entry is the number of blocks so far.
BatchDraw(kind, page, y, bottom, entry, item) ==
    [kind |-> kind, block |-> kind, page |-> page, y |-> y, bottom |-> bottom,
     entry |-> entry, item |-> item]

\* A click on the download button of the batch result message: the title
\* banner, and the cursor at 55.
batchReportTitle ==
    /\ report.pc = "idle"
    /\ probe.fn = "displayBatchResults"
    /\ probe.items # <<>>
    /\ reportsSaved < MaxReports
    /\ ReportStep([pc |-> "batchTitle", ops |-> probe.data.results, yPos |-> Mm(55),
                   pageCount |-> 1, footers |-> 0,
                   draw |-> BatchDraw("title", 1, 0, Mm(40), 0, NoItem)])
    /\ UNCHANGED reportsSaved

\* The summary box with its four lines.
batchExecutiveSummary ==
    /\ report.pc = "batchTitle"
    /\ ReportStep([report EXCEPT
                      !.pc = "batchSummary",
                      !.yPos = @ + Mm(15) + Mm(6) + Mm(6) + Mm(6) + Mm(20),
                      !.draw = BatchDraw("summary", report.pageCount, report.yPos - Mm(5),
                                         report.yPos + Mm(30), 0, NoItem)])
    /\ UNCHANGED reportsSaved

\* The banner above the document blocks.
documentWiseAnalysis ==
    /\ report.pc = "batchSummary"
    /\ ReportStep([report EXCEPT
                      !.pc = "batchBlocks",
                      !.yPos = @ + Mm(15),
                      !.draw = BatchDraw("header", report.pageCount, report.yPos - Mm(5),
                                         report.yPos + Mm(5), 0, NoItem)])
    /\ UNCHANGED reportsSaved

\* One turn of results.forEach: the page-break check, the block of the result
\* from its border line down to its last text, and the cursor 40 further.
documentBlock ==
    /\ report.pc = "batchBlocks"
    /\ report.ops # <<>>
    /\ LET item == BlockItem(Head(report.ops))
           breaks == PageBreak(report.yPos, Mm(50))
           y == IF breaks THEN Mm(20) ELSE report.yPos
           page == IF breaks THEN report.pageCount + 1 ELSE report.pageCount
       IN  ReportStep([report EXCEPT
                          !.ops = Tail(@),
                          !.yPos = y + Mm(40),
                          !.pageCount = page,
                          !.draw = BatchDraw("block", page, y,
                                             IF item.more > 0
                                             THEN y + Mm(18) + item.listed * Mm(5)
                                             ELSE y + Mm(30),
                                             report.draw.entry + 1, item)])
    /\ UNCHANGED reportsSaved

\* The disclaimer box after the last block.
batchDisclaimer ==
    /\ report.pc = "batchBlocks"
    /\ report.ops = <<>>
    /\ LET breaks == PageBreak(report.yPos, Mm(40))
           y == (IF breaks THEN Mm(20) ELSE report.yPos) + Mm(10)
           page == IF breaks THEN report.pageCount + 1 ELSE report.pageCount
       IN  ReportStep([report EXCEPT
                          !.pc = "batchDisclaimer",
                          !.yPos = y,
                          !.pageCount = page,
                          !.draw = BatchDraw("disclaimer", page, y - Mm(5), y + Mm(20),
                                             report.draw.entry, NoItem)])
    /\ UNCHANGED reportsSaved

\* One turn of the footer loop of the batch report.
batchFooter ==
    /\ report.pc \in {"batchDisclaimer", "batchFooters"}
    /\ report.footers < report.pageCount
    /\ ReportStep([report EXCEPT
                      !.pc = "batchFooters",
                      !.footers = @ + 1,
                      !.draw = BatchDraw("footer", report.footers + 1, pageHeight - Mm(10),
                                         pageHeight - Mm(10), report.draw.entry, NoItem)])
    /\ UNCHANGED reportsSaved

\* doc.save(...) of the batch report
batchSave ==
    /\ report.pc = "batchFooters"
    /\ report.footers = report.pageCount
    /\ ReportStep(IdleReport)
    /\ reportsSaved' = reportsSaved + 1

\* The batch of the first n documents has been answered; its results are
\* shown when the timer fires.
BatchAnswered(data) ==
    LET ids == {File(i) : i \in DOMAIN data.results}
    IN  /\ documents = ids
        /\ mahareraDocuments = RegFiles
        /\ selectedUserDocIds = ids
        /\ selectedMahareraIds = {"rera_act.pdf"}
        /\ selectedDocument = Null
        /\ isLoading = FALSE
        /\ chatHistory = <<>>
        /\ selectAllUserDocs = [checked |-> TRUE, indeterminate |-> FALSE, disabled |-> FALSE]
        /\ selectAllMaharera = [checked |-> FALSE, indeterminate |-> TRUE, disabled |-> FALSE]
        /\ checkComplianceBtnDisabled = FALSE
        /\ batchProcessBtnDisabled = FALSE
        /\ sendBtnDisabled = FALSE
        /\ deleteMahareraBtnDisabled = FALSE
        /\ typingIndicators = 0
        /\ uncaught = 0
        /\ pendingDocuments = 0
        /\ pendingMaharera = 0
        /\ pendingStatus = 0
        /\ deleting = {}
        /\ queries = {}
        /\ netCalls = 0
        /\ lastSubmit = "none"
        /\ ObsInit
        /\ batchModalActive = TRUE
        /\ batchDocList = ids
        /\ batchChecked = ids
        /\ startBatchBtnDisabled = FALSE
        /\ batchProgress = [display |-> TRUE, width |-> 100, text |-> "complete",
                            background |-> "default"]
        /\ batchRequests = {[id |-> 1, documentIds |-> ids,
                             mahareraIds |-> {"rera_act.pdf"}, pc |-> "timer"]}
        /\ batchCalls = 1
        /\ batchResultsShown = 0
        /\ pendingUsage = 0
        /\ reportsSaved = 0
        /\ RequestInit
        /\ report = IdleReport
        /\ probe = [fn |-> "displayBatchResults", data |-> data, items |-> <<>>]

BatchReportInit ==
    /\ focus = "batchReport"
    /\ \E results \in BatchResults :
          BatchAnswered([summary |-> SummaryOf(results), results |-> results])

BatchReportNext ==
    \/ BatchTimerFires
    \/ batchReportTitle
    \/ batchExecutiveSummary
    \/ documentWiseAnalysis
    \/ documentBlock
    \/ batchDisclaimer
    \/ batchFooter
    \/ batchSave

SpecBatchReport == BatchReportInit /\ [][BatchReportNext]_vars

\* Both reports.
ReportsInit == ReportInit \/ BatchReportInit

ReportsNext ==
    \/ focus = "report" /\ reportTitle
    \/ focus = "report" /\ executiveSummary
    \/ focus = "report" /\ redFlagAnalysis
    \/ focus = "report" /\ aiAnalysis
    \/ focus = "report" /\ documentSources
    \/ focus = "report" /\ disclaimer
    \/ focus = "report" /\ addSection
    \/ focus = "report" /\ addTextLine
    \/ focus = "report" /\ moveCursor
    \/ focus = "report" /\ statusText
    \/ focus = "report" /\ disclaimerLine
    \/ focus = "report" /\ footer
    \/ focus = "report" /\ save
    \/ focus = "batchReport" /\ BatchTimerFires
    \/ focus = "batchReport" /\ batchReportTitle
    \/ focus = "batchReport" /\ batchExecutiveSummary
    \/ focus = "batchReport" /\ documentWiseAnalysis
    \/ focus = "batchReport" /\ documentBlock
    \/ focus = "batchReport" /\ batchDisclaimer
    \/ focus = "batchReport" /\ batchFooter
    \/ focus = "batchReport" /\ batchSave

SpecReports == ReportsInit /\ [][ReportsNext]_vars

----
\* addMessage as a function of its arguments: the blocks of the message it
\* builds. A response field is a JSON value, or undefined when it is left out.

Bool(b) == [type |-> "boolean", value |-> b]

Str(s) == [type |-> "string", value |-> s]

\* data.decision
Decisions ==
    {Undefined, JsonNull}
    \cup {[type |-> "object", compliance_check |-> c, is_red_flag |-> f] :
             c \in {Undefined, Bool(TRUE), Bool(FALSE), Str("true")},
             f \in {Undefined, Bool(TRUE), Bool(FALSE)}}

\* data.red_flags, each flag by its severity
RedFlagFields ==
    {Undefined, JsonNull, JsonArray(<<>>), JsonArray(<<"HIGH">>),
     JsonArray(<<"LOW", "CRITICAL">>)}

\* A summary as the backend generates it, each missing clause by its domain:
\* the clauses found and the three lists of the missing ones make up the
\* checks, and the summary is compliant when nothing is missing.
GeneratedSummary(found, critical, high, medium) ==
    [type |-> "object",
     is_compliant |-> Len(critical) + Len(high) + Len(medium) = 0,
     compliant_count |-> found,
     total_checks |-> found + Len(critical) + Len(high) + Len(medium),
     critical_missing |-> JsonArray(critical), high_missing |-> JsonArray(high),
     medium_missing |-> JsonArray(medium)]

\* The summary with its empty lists left out.
WithoutEmptyLists(summary) ==
    LET Kept(list) == IF list.items = <<>> THEN Undefined ELSE list
    IN  [summary EXCEPT !.critical_missing = Kept(@), !.high_missing = Kept(@),
                        !.medium_missing = Kept(@)]

\* data.compliance_summary
SummaryFields ==
    {Undefined, JsonNull,
     GeneratedSummary(3, <<>>, <<>>, <<>>),
     WithoutEmptyLists(GeneratedSummary(3, <<>>, <<>>, <<>>)),
     WithoutEmptyLists(GeneratedSummary(2, <<"possession">>, <<>>, <<"parking", "society">>)),
     GeneratedSummary(2, <<"possession">>, <<"refund">>, <<"parking">>),
     GeneratedSummary(4, <<>>, <<"refund">>, <<>>)}

\* data.sources, each source by its file
SourceFields == {Undefined, JsonArray(<<>>), JsonArray(<<"rera_act.pdf">>)}

\* The arguments of the addMessage calls: a user message has its text only, an
\* answer has the fields of the response.
MessageArgs ==
    [role : {"assistant"}, sources : SourceFields, redFlags : RedFlagFields,
     decision : Decisions, complianceSummary : SummaryFields, showSources : BOOLEAN]
    \cup [role : {"user"}, sources : {Undefined}, redFlags : {Undefined},
          decision : {Undefined}, complianceSummary : {Undefined}, showSources : BOOLEAN]

\* A default parameter: null for an argument that is undefined.
OrNull(v) == IF v = Undefined THEN JsonNull ELSE v

\* The truth of a value in a condition.
Truthy(v) ==
    CASE v.type \in {"undefined", "null", "NaN"} -> FALSE
      [] v.type = "boolean" -> v.value
      [] v.type = "string" -> v.value # ""
      [] v.type = "number" -> v.value # 0
      [] OTHER -> TRUE

\* A check that takes any decision for a compliance check.
IsComplianceCheckOfAnyDecision(decision) == Truthy(decision)

\* decision && decision.compliance_check === true
IsComplianceCheck(decision) ==
    Truthy(decision) /\ decision.compliance_check = Bool(TRUE)

\* No message has been built.
NoView ==
    [complianceBlock |-> "none", missingGroups |-> <<>>, redFlagBlock |-> <<>>,
     noRedFlagsBanner |-> FALSE, sourcesBlock |-> <<>>, downloadBtn |-> FALSE]

\* list || []
OrEmpty(list) == IF Truthy(list) THEN list.items ELSE <<>>

\* A group of missing clauses: nothing when the list is empty, else the title
\* of the group and one item per clause.
MissingGroup(title, list) ==
    IF Len(OrEmpty(list)) > 0
    THEN <<[group |-> title, items |-> OrEmpty(list)]>>
    ELSE <<>>

\* The groups with the high priority first.
MissingGroupsHighFirst(complianceSummary) ==
    MissingGroup("high", complianceSummary.high_missing)
    \o MissingGroup("critical", complianceSummary.critical_missing)
    \o MissingGroup("medium", complianceSummary.medium_missing)

\* compliance-missing: the groups of a summary that is not compliant.
MissingGroups(complianceSummary) ==
    MissingGroup("critical", complianceSummary.critical_missing)
    \o MissingGroup("high", complianceSummary.high_missing)
    \o MissingGroup("medium", complianceSummary.medium_missing)

\* A verdict taken from the count of clauses found.
ComplianceVerdictByCount(complianceSummary) ==
    IF complianceSummary.compliant_count > 0 THEN "compliant" ELSE "issues"

\* isFullyCompliant decides between the block of all clauses found and the
\* block of the missing ones.
ComplianceVerdict(complianceSummary) ==
    IF complianceSummary.is_compliant THEN "compliant" ELSE "issues"

\* A source list that does not look at the settings.
SourcesBlockWhateverSettings(sources, showSources) ==
    IF Truthy(sources) THEN sources.items ELSE <<>>

\* sourcesHTML: the sources of the answer, when there are some and the settings
\* show them.
SourcesBlock(sources, showSources) ==
    IF Truthy(sources) /\ Len(sources.items) > 0 /\ showSources
    THEN sources.items
    ELSE <<>>

\* A banner for every check that is not flagged, is_red_flag set or not.
NoRedFlagsBannerUnlessFlagged(listed, isComplianceCheck, decision) ==
    ~listed /\ isComplianceCheck /\ Truthy(decision)
        /\ decision.is_red_flag # Bool(TRUE)

\* The else-if after the red-flag block: the "No Red Flags Detected" banner.
NoRedFlagsBanner(listed, isComplianceCheck, decision) ==
    ~listed /\ isComplianceCheck /\ Truthy(decision)
        /\ decision.is_red_flag = Bool(FALSE)

\* The blocks of the message: complianceHTML, redFlagsHTML, sourcesHTML and
\* the download button.
MessageView(args) ==
    LET sources == OrNull(args.sources)
        redFlags == OrNull(args.redFlags)
        decision == OrNull(args.decision)
        complianceSummary == OrNull(args.complianceSummary)
        isComplianceCheck == IsComplianceCheck(decision)
        listed == isComplianceCheck /\ Truthy(redFlags) /\ Len(redFlags.items) > 0
    IN  [complianceBlock |->
             IF isComplianceCheck /\ Truthy(complianceSummary)
             THEN ComplianceVerdict(complianceSummary)
             ELSE "none",
         missingGroups |->
             IF isComplianceCheck /\ Truthy(complianceSummary)
                    /\ ~complianceSummary.is_compliant
             THEN MissingGroups(complianceSummary)
             ELSE <<>>,
         redFlagBlock |-> IF listed THEN redFlags.items ELSE <<>>,
         noRedFlagsBanner |-> NoRedFlagsBanner(listed, isComplianceCheck, decision),
         sourcesBlock |-> SourcesBlock(sources, args.showSources),
         downloadBtn |-> isComplianceCheck /\ args.role = "assistant"]

\* addMessage(role, content, sources, redFlags, decision, complianceResults,
\* complianceSummary) builds the message.
messageBuilt ==
    /\ probe.fn = "addMessage"
    /\ ~probe.built
    /\ ProbeStep([probe EXCEPT !.built = TRUE, !.view = MessageView(probe.args)])

\* The next message is on its way to addMessage.
RenderInit ==
    /\ AnswerOnPage
    /\ focus = "render"
    /\ report = IdleReport
    /\ \E args \in MessageArgs : probe = [fn |-> "addMessage", args |-> args, built |-> FALSE, view |-> NoView]

RenderNext == messageBuilt

SpecRender == RenderInit /\ [][RenderNext]_vars

----
\* Listing refreshes on their way. The backend holds the user documents; a
\* GET /documents is answered with the documents held when it is served, a
\* POST /delete removes the document, and the responses arrive in any order.

\* At most MaxListings GET /documents requests are issued in one run.
MaxListings == 3

ServerStep(next) ==
    /\ probe' = next
    /\ UNCHANGED <<obsVars, batchVars, pendingUsage, reportsSaved, focus, requestVars, report>>

\* The request is served on its way out: its response carries the documents
\* the backend holds now.
WithListingRequest(server) ==
    [server EXCEPT !.issued = @ + 1,
                   !.requests = @ \cup {[seq |-> server.issued + 1,
                                         listing |-> server.documents]},
                   !.latest = server.documents]

\* loadDocuments up to its await, as called by the status poll and at load.
loadDocumentsRequested ==
    /\ probe.fn = "server"
    /\ probe.issued < MaxListings
    /\ ServerStep(WithListingRequest(probe))
    /\ lastSubmit' = "none"
    /\ UNCHANGED <<selVars, queryVars>>

\* loadDocuments after its await, the response of request r being ok.
loadDocumentsArrives(r) ==
    /\ probe.fn = "server"
    /\ r \in probe.requests
    /\ refreshDocuments("ok", r.listing)
    /\ ServerStep([probe EXCEPT !.requests = @ \ {r}])

\* deleteDocument from the confirm dialog to the end of its continuation, the
\* backend having deleted the file: the listing is reloaded and the legacy
\* single selection is cleared when it names the file.
deleteDocumentDone(filename) ==
    /\ probe.fn = "server"
    /\ probe.issued < MaxListings
    /\ filename \in documents \cap probe.documents
    /\ selectedDocument' = IF selectedDocument = filename THEN Null ELSE selectedDocument
    /\ ServerStep(WithListingRequest([probe EXCEPT !.documents = @ \ {filename},
                                                   !.deleted = @ \cup {filename}]))
    /\ lastSubmit' = "none"
    /\ UNCHANGED <<documents, mahareraDocuments, selectedUserDocIds, selectedMahareraIds,
                   selectAllUserDocs, selectAllMaharera, checkComplianceBtnDisabled,
                   batchProcessBtnDisabled, deleteMahareraBtnDisabled, pendingDocuments,
                   pendingMaharera, pendingStatus, deleting, queryVars>>

\* The page has loaded the listings the backend holds.
ListingStart ==
    /\ LoadedPage(UserFiles, QueryRegFiles)
    /\ focus = "listing"
    /\ RequestInit
    /\ report = IdleReport
    /\ probe = [fn |-> "server", documents |-> UserFiles, deleted |-> {}, issued |-> 0,
                requests |-> {}, latest |-> UserFiles]

ListingNext ==
    \/ ToggleUserDoc /\ UNCHANGED auxVars
    \/ loadDocumentsRequested
    \/ \E r \in probe.requests : loadDocumentsArrives(r)
    \/ \E filename \in UserFiles : deleteDocumentDone(filename)

SpecListing == ListingStart /\ [][ListingNext]_vars

----
\* The status poll against a backend whose documents go away. The backend
\* holds the user documents and the regulatory documents; /status reports how
\* many it holds, and /documents and /maharera list them. Every request here is
\* answered ok.

\* A document is removed at the backend (from another page, or with its index).
backendDeletes(filename) ==
    /\ probe.fn = "backend"
    /\ filename \in probe.documents \cup probe.maharera
    /\ ServerStep([probe EXCEPT !.documents = @ \ {filename}, !.maharera = @ \ {filename}])
    /\ lastSubmit' = "none"
    /\ UNCHANGED <<selVars, queryVars>>

\* data.documents of the /status response.
DocumentCount(backend) == Cardinality(backend.documents \cup backend.maharera)

\* checkServerStatus after its await, with the backend's answer.
checkServerStatusAnswered ==
    /\ probe.fn = "backend"
    /\ checkServerStatusSettles("ok", DocumentCount(probe))
    /\ UNCHANGED auxVars

\* loadDocuments and loadMahareraDocuments after their awaits, likewise.
loadDocumentsAnswered ==
    /\ probe.fn = "backend"
    /\ loadDocumentsSettles("ok", probe.documents)
    /\ UNCHANGED auxVars

loadMahareraDocumentsAnswered ==
    /\ probe.fn = "backend"
    /\ loadMahareraDocumentsSettles("ok", probe.maharera)
    /\ UNCHANGED auxVars

StatusStart ==
    /\ LoadedPage(UserFiles, QueryRegFiles)
    /\ focus = "status"
    /\ RequestInit
    /\ report = IdleReport
    /\ probe = [fn |-> "backend", documents |-> UserFiles, maharera |-> QueryRegFiles]

StatusNext ==
    \/ ToggleUserDoc /\ UNCHANGED auxVars
    \/ ToggleMaharera /\ UNCHANGED auxVars
    \/ \E filename \in UserFiles \cup QueryRegFiles : backendDeletes(filename)
    \/ checkServerStatus /\ UNCHANGED auxVars
    \/ checkServerStatusAnswered
    \/ loadDocumentsAnswered
    \/ loadMahareraDocumentsAnswered

SpecStatus == StatusStart /\ [][StatusNext]_vars

\* The 30-second timer keeps firing and every request is answered.
SpecStatusFair ==
    /\ SpecStatus
    /\ WF_vars(checkServerStatus /\ UNCHANGED auxVars)
    /\ WF_vars(checkServerStatusAnswered)
    /\ WF_vars(loadDocumentsAnswered)
    /\ WF_vars(loadMahareraDocumentsAnswered)

----
\* Claims.

InFlight(id) == \E q \in queries : q.id = id

Entries(role, id) ==
    {i \in DOMAIN chatHistory : chatHistory[i][1] = role /\ chatHistory[i][3] = id}

\* C1: at most one /query request is in flight at any time.
C1_AtMostOneQueryInFlight == Cardinality(queries) <= 1

\* C2: every selected filename is in the current listing of its category.
C2_NoDanglingSelection ==
    /\ selectedUserDocIds \subseteq documents
    /\ selectedMahareraIds \subseteq mahareraDocuments

\* C3: every accepted query or compliance submit eventually leaves the
\* orchestrator Idle: isLoading false and the send button enabled.
C3_EventuallyIdle ==
    \A id \in 1..MaxQueries :
        InFlight(id) ~> (~InFlight(id) /\ ~isLoading /\ ~sendBtnDisabled)

C3_Witness ==
    /\ netCalls = MaxQueries
    /\ queries = {}
    /\ ~isLoading /\ ~sendBtnDisabled
    /\ \E i, j \in DOMAIN chatHistory :
          /\ chatHistory[i] = <<"assistant", "answer", 1>>
          /\ chatHistory[j] = <<"assistant", "error", 2>>

\* C4: a submit with a blank question, and a compliance submit with no selected
\* regulatory document or no listed user document, issue no network call and
\* change nothing of the orchestrator.
C4_ValidationIssuesNoCall ==
    [][((\E text \in Messages : Trim(text) = <<>> /\ sendMessage(text))
         \/ (checkCompliance /\ (selectedMahareraIds = {} \/ documents = {})))
       => UNCHANGED <<queryVars, selVars>>]_vars

C4_Witness ==
    /\ lastSubmit = "compliance:noMaharera"
    /\ selectedMahareraIds = {}
    /\ Cardinality(documents) = 2
    /\ netCalls = 0
    /\ ~isLoading

\* C5: a sendMessage call that directly follows an accepted one issues no
\* network call and changes neither isLoading nor the conversation.
C5_SecondSendIsNoOp ==
    [][(lastSubmit = "send:accepted" /\ \E text \in Messages : sendMessage(text))
       => UNCHANGED <<queryVars, selVars>>]_vars

C5_Witness ==
    /\ lastSubmit = "send:loading"
    /\ netCalls = 1
    /\ queries = {[id |-> 1, kind |-> "query", pc |-> "fetch"]}
    /\ chatHistory = <<<<"user", "question", 1>>>>
    /\ isLoading

\* C6: an accepted submit issues exactly one /query call, and no other step
\* (a response, a failure) issues one.
C6_OneCallPerSubmit ==
    [][IF lastSubmit' \in {"send:accepted", "compliance:accepted"}
       THEN netCalls' = netCalls + 1
       ELSE netCalls' = netCalls]_vars

C6_Witness ==
    /\ netCalls = 1
    /\ queries = {}
    /\ chatHistory = <<<<"user", "question", 1>>, <<"assistant", "error", 1>>>>

\* C7: every accepted submit gets exactly one assistant message, after its user
\* message and once its request has settled, and no exception leaves the handler.
C7_OneReplyPerSubmit ==
    /\ uncaught = 0
    /\ \A id \in 1..netCalls :
          /\ Cardinality(Entries("user", id)) = 1
          /\ Cardinality(Entries("assistant", id)) = IF InFlight(id) THEN 0 ELSE 1
          /\ \A i \in Entries("user", id), j \in Entries("assistant", id) : i < j

C7_Witness ==
    /\ queries = {}
    /\ \E i, j \in DOMAIN chatHistory :
          /\ chatHistory[i] = <<"assistant", "error", 1>>
          /\ chatHistory[j] = <<"assistant", "answer", 2>>

\* C8: a successful delete of a selected user document takes its filename out of
\* the selection; a successful delete of an unselected one leaves it as it was.
C8_DeleteClearsSelection ==
    [][\A filename \in UserFiles :
          deleteDocumentSettles(filename, "ok")
          => /\ filename \notin selectedUserDocIds'
             /\ filename \notin selectedUserDocIds
                    => selectedUserDocIds' = selectedUserDocIds]_vars

\* C9: a toggle of a filename that is not in the listing of its category leaves
\* the selection of that category unchanged.
C9_UnlistedToggleIsNoOp ==
    [][/\ \A filename \in UserFiles \ documents :
             toggleUserDocSelection(filename)
             => selectedUserDocIds' = selectedUserDocIds
       /\ \A filename \in RegFiles \ mahareraDocuments :
             toggleMahareraSelection(filename)
             => selectedMahareraIds' = selectedMahareraIds]_vars

\* C10: the select-all box of a category shows the status derived from its
\* selection and listing, and still shows it after every step that changes the
\* listing or the selection.
Shows(control, selected, listing) ==
    LET s == SelectAllStatus(Cardinality(selected), Cardinality(listing))
    IN  control.checked = s.checked /\ control.indeterminate = s.indeterminate

C10_StatusNeverStale ==
    [][/\ (/\ Shows(selectAllUserDocs, selectedUserDocIds, documents)
           /\ (documents' # documents \/ selectedUserDocIds' # selectedUserDocIds))
          => Shows(selectAllUserDocs', selectedUserDocIds', documents')
       /\ (/\ Shows(selectAllMaharera, selectedMahareraIds, mahareraDocuments)
           /\ (mahareraDocuments' # mahareraDocuments
               \/ selectedMahareraIds' # selectedMahareraIds))
          => Shows(selectAllMaharera', selectedMahareraIds', mahareraDocuments')]_vars

\* C11: after a toggle the select-all box of the category is checked iff all
\* listed documents are selected and the listing is not empty, indeterminate iff
\* some but not all are, and never both, for listings of 0 to 3 documents.
StatusAsSpecified(control, selected, listing) ==
    LET selectedCount == Cardinality(selected)
        total == Cardinality(listing)
    IN  /\ control.checked <=> (selectedCount = total /\ total > 0)
        /\ control.indeterminate <=> (0 < selectedCount /\ selectedCount < total)
        /\ ~(control.checked /\ control.indeterminate)

C11_StatusFunction ==
    /\ lastOp.op = "toggleUserDocSelection"
          => StatusAsSpecified(selectAllUserDocs, selectedUserDocIds, documents)
    /\ lastOp.op = "toggleMahareraSelection"
          => StatusAsSpecified(selectAllMaharera, selectedMahareraIds, mahareraDocuments)

C11_Witness ==
    /\ lastOp.op = "toggleUserDocSelection"
    /\ Cardinality(documents) = 3
    /\ Cardinality(selectedUserDocIds) = 2
    /\ selectAllUserDocs.indeterminate
    /\ ~selectAllUserDocs.checked

\* C12: a select-all that checks the box makes the selection of the category
\* exactly its listing, whatever was selected before; with 3 listed documents
\* of which 2 were selected the status was {unchecked, indeterminate} before and
\* is {checked, not indeterminate} after.
C12_SelectAllSelectsListing ==
    /\ lastOp = [op |-> "toggleSelectAllUserDocs", arg |-> "checked"]
          => /\ selectedUserDocIds = documents
             /\ documents # {} =>
                   /\ StatusAsSpecified([checked |-> TRUE, indeterminate |-> FALSE],
                                        selectedUserDocIds, documents)
                   /\ selectAllUserDocs.checked /\ ~selectAllUserDocs.indeterminate
             /\ (Cardinality(documents) = 3 /\ Cardinality(selBefore) = 2
                 /\ selBefore \subseteq documents)
                   => StatusAsSpecified([checked |-> FALSE, indeterminate |-> TRUE],
                                        selBefore, documents)
    /\ lastOp = [op |-> "toggleSelectAllMaharera", arg |-> "checked"]
          => /\ selectedMahareraIds = mahareraDocuments
             /\ mahareraDocuments # {} =>
                   selectAllMaharera.checked /\ ~selectAllMaharera.indeterminate

C12_Witness ==
    /\ lastOp = [op |-> "toggleSelectAllUserDocs", arg |-> "checked"]
    /\ prevOp.op = "toggleUserDocSelection"
    /\ Cardinality(documents) = 3
    /\ Cardinality(selBefore) = 2
    /\ selectedUserDocIds = documents
    /\ selectAllUserDocs.checked /\ ~selectAllUserDocs.indeterminate

\* C13: two toggles of the same filename in a row leave the selection of the
\* category as it was before the first.
C13_DoubleToggle ==
    (lastOp = prevOp /\ lastOp.op \in {"toggleUserDocSelection", "toggleMahareraSelection"})
        => /\ lastOp.op = "toggleUserDocSelection" => selectedUserDocIds = selBefore2
           /\ lastOp.op = "toggleMahareraSelection" => selectedMahareraIds = selBefore2

C13_Witness ==
    /\ lastOp = [op |-> "toggleUserDocSelection", arg |-> "lease.pdf"]
    /\ prevOp = lastOp
    /\ selBefore = {"agreement.pdf"}
    /\ selBefore2 = {"agreement.pdf", "lease.pdf"}
    /\ selectedUserDocIds = {"agreement.pdf", "lease.pdf"}

\* C14: a select-all that checks the box followed by one that unchecks it
\* leaves the selection of the category empty, for every listing size.
C14_SelectAllThenNone ==
    /\ (/\ prevOp = [op |-> "toggleSelectAllUserDocs", arg |-> "checked"]
        /\ lastOp = [op |-> "toggleSelectAllUserDocs", arg |-> "unchecked"])
          => selectedUserDocIds = {}
    /\ (/\ prevOp = [op |-> "toggleSelectAllMaharera", arg |-> "checked"]
        /\ lastOp = [op |-> "toggleSelectAllMaharera", arg |-> "unchecked"])
          => selectedMahareraIds = {}

C14_Witness ==
    /\ prevOp = [op |-> "toggleSelectAllUserDocs", arg |-> "checked"]
    /\ lastOp = [op |-> "toggleSelectAllUserDocs", arg |-> "unchecked"]
    /\ Cardinality(documents) = 3
    /\ selBefore = documents
    /\ selectedUserDocIds = {}

\* C15: a query submit, a compliance submit, a response, a batch start and its
\* completion, a report download, a status or usage poll and a listing refresh
\* leave both selections as they are.
C15_SelectionFrame ==
    [][(\/ SendMessage \/ checkCompliance \/ FetchSettles \/ BodySettles
        \/ openBatchModal \/ closeBatchModal \/ startBatchProcessing
        \/ BatchFetchSettles \/ BatchBodySettles \/ BatchTimerFires
        \/ generateComplianceReport
        \/ checkServerStatus \/ CheckServerStatusSettles
        \/ fetchApiUsage \/ fetchApiUsageSettles
        \/ loadDocuments \/ LoadDocumentsSettles \/ LoadMahareraDocumentsSettles)
       => UNCHANGED <<selectedUserDocIds, selectedMahareraIds>>]_vars

C15_Witness ==
    /\ batchResultsShown = 1
    /\ batchRequests = {}
    /\ selectedUserDocIds = UserFiles
    /\ selectedMahareraIds = {"rera_act.pdf"}

\* The requests a step puts on their way.
Issued == sent' \ sent

\* C16: every request a compliance submit issues carries compliance_check true,
\* top_k 10 whatever the top-K setting is, and as selected_maharera the
\* regulatory selection of the moment of the submit, which is not empty.
C16_ComplianceRequest ==
    [][lastSubmit' = "compliance:accepted" =>
          /\ selectedMahareraIds # {}
          /\ \E r \in Issued :
                /\ Issued = {r}
                /\ r.id = netCalls'
                /\ r.body.compliance_check = "true"
                /\ r.body.top_k = Num(10)
                /\ r.body.selected_maharera = JsonArray(selectedMahareraIds)]_vars

C16_Witness ==
    /\ topK = NaN
    /\ \E r \in sent :
          /\ r.body.compliance_check = "true"
          /\ r.body.selected_maharera = JsonArray(QueryRegFiles)

\* C17: a request carries the selections of the moment of its submit, null for
\* an empty one (the regulatory one of a plain submit likewise), and nothing
\* that happens while it is in flight alters it.
C17_RequestSnapshot ==
    [][/\ lastSubmit' = "send:accepted" =>
             \E r \in Issued :
                /\ Issued = {r}
                /\ r.body.selected_documents =
                       (IF selectedUserDocIds = {} THEN JsonNull
                        ELSE JsonArray(selectedUserDocIds))
                /\ r.body.selected_maharera =
                       (IF selectedMahareraIds = {} THEN JsonNull
                        ELSE JsonArray(selectedMahareraIds))
       /\ lastSubmit' = "compliance:accepted" =>
             \E r \in Issued :
                /\ Issued = {r}
                /\ r.body.selected_documents =
                       (IF selectedUserDocIds = {} THEN JsonNull
                        ELSE JsonArray(selectedUserDocIds))
       /\ \A r \in sent : InFlight(r.id)' => r \in sent'
       /\ \A r \in sent' : r \in sent \/ (r.id = netCalls' /\ netCalls' = netCalls + 1)]_vars

\* A plain request sent with nothing selected is in flight while both
\* selections have since been filled.
C17_Witness ==
    /\ selectedUserDocIds = QueryUserFiles
    /\ selectedMahareraIds = QueryRegFiles
    /\ \E r \in sent :
          /\ InFlight(r.id)
          /\ r.body.compliance_check = "absent"
          /\ r.body.selected_documents = JsonNull
          /\ r.body.selected_maharera = JsonNull

\* C18: every request carries a question that is not empty and a top_k that is
\* an integer above zero.
C18_WellFormedRequest ==
    \A r \in sent :
        /\ r.body.question.type = "text" => r.body.question.text # <<>>
        /\ r.body.top_k.type = "number"
        /\ r.body.top_k.value > 0

\* C19: during a report build nothing of the content (text line, status text,
\* section banner, disclaimer line) is drawn below pageHeight - bottomMargin.
C19_NoDrawBelowMargin ==
    report.draw.kind \in {"line", "status", "section", "disclaimer"} =>
        report.draw.bottom <= pageHeight - bottomMargin

\* The step inserted a page.
AddedPage == report'.pageCount = report.pageCount + 1

\* C20 as stated: addText breaks the page before a line exactly when the
\* cursor plus the height of the line would pass pageHeight - bottomMargin.
C20_BreakOnLookAhead ==
    [][addTextLine =>
          (AddedPage <=>
              report.yPos + LineHeight(Head(report.ops).size) > pageHeight - bottomMargin)]_vars

\* C20, amended: addText breaks the page before a line exactly when the cursor
\* itself has passed pageHeight - bottomMargin; the line is then drawn at the
\* top margin of the new page, and otherwise where the cursor was; each check
\* is followed by one whole line, so pages break between lines only.
C20_BreakWhenPastLimit ==
    [][addTextLine =>
          /\ AddedPage <=> report.yPos > pageHeight - bottomMargin
          /\ ~AddedPage => report'.pageCount = report.pageCount
          /\ report'.draw.kind = "line"
          /\ report'.draw.page = report'.pageCount
          /\ report'.draw.y = (IF AddedPage THEN topMargin ELSE report.yPos)
          /\ report'.ops = AfterLine(report.ops)]_vars

\* The analysis text has run over the first page: one of its lines has just
\* been drawn at the top of the second, and more of them follow.
C20_Witness ==
    /\ report.pc = "analysis"
    /\ report.draw = [kind |-> "line", block |-> "analysis", page |-> 2, y |-> topMargin,
                      bottom |-> topMargin]
    /\ report.ops # <<>>
    /\ Head(report.ops).op = "text"
    /\ Head(report.ops).lines \in 1..(MaxContentLines - 2)

\* C21: a report build that has started ends with the document saved, and a
\* report of an input grown by a line of text or an item has no fewer pages
\* than the report of the input itself.
C21_TerminatesAndPagesGrow ==
    /\ (report.pc # "idle") ~> (report.pc = "idle" /\ reportsSaved > 0)
    /\ [](probe.fn = "Pages" => probe.before <= probe.pages)

\* An input of one page has grown into one of two.
C21_Witness ==
    /\ probe.fn = "Pages"
    /\ probe.before = 1
    /\ probe.pages = 2

\* C22: addSection checks for the page break before it draws, with the
\* look-ahead 40; the banner and its title go on one page and end above the
\* bottom margin, and the cursor is then 15 below the banner's middle line.
C22_HeaderNotSplit ==
    [][addSection =>
          LET moved == report.yPos + Mm(5)
              y == IF AddedPage THEN topMargin ELSE moved
          IN  /\ AddedPage <=> moved > pageHeight - Mm(40)
              /\ ~AddedPage => report'.pageCount = report.pageCount
              /\ report'.draw.kind = "section"
              /\ report'.draw.page = report'.pageCount
              /\ report'.draw.y = y - Mm(5)
              /\ report'.draw.y >= 0
              /\ report'.draw.bottom = y + Mm(5)
              /\ report'.draw.bottom <= pageHeight - bottomMargin
              /\ report'.yPos = y + Mm(15)]_vars

\* A banner has been moved to the top of the second page.
C22_Witness ==
    /\ report.draw.kind = "section"
    /\ report.draw.page = 2
    /\ report.draw.y = topMargin - Mm(5)
    /\ report.yPos = topMargin + Mm(15)

\* The place of a block in the report.
BlockRank ==
    [b \in {"none", "title", "summary", "redflags", "analysis", "sources", "disclaimer",
            "footers"} |->
        CASE b = "none" -> 0 [] b = "title" -> 1 [] b = "summary" -> 2 [] b = "redflags" -> 3
          [] b = "analysis" -> 4 [] b = "sources" -> 5 [] b = "disclaimer" -> 6
          [] b = "footers" -> 7]

\* C23: within a build the draws go through the blocks in the order title,
\* executive summary, red flags, analysis, sources, disclaimer, footers: a draw
\* is never of an earlier block than the draw before it, nor of a block the
\* build has not come to.
C23_BlockOrder ==
    [][report.pc # "idle" /\ report'.pc # "idle" =>
          /\ BlockRank[report'.draw.block] >= BlockRank[report.draw.block]
          /\ BlockRank[report'.draw.block] <= BlockRank[report'.pc]]_vars

\* A build of two pages has come to the disclaimer and drawn in it.
C23_Witness ==
    /\ report.pc = "disclaimer"
    /\ report.draw.block = "disclaimer"
    /\ report.pageCount = 2
\* C24: in both reports the footers are written in a final pass. Once a footer
\* is drawn no page is added; every footer drawn is the next one, on the page of
\* its number, which is at most the page count; and the document is saved only
\* when it has as many footers as pages, so page i of M has the footer i of M.
C24_FootersInFinalPass ==
    [][/\ report.footers > 0 /\ report'.pc # "idle" =>
              report'.pageCount = report.pageCount
       /\ report'.pc # "idle"
              /\ (report'.footers # report.footers \/ report'.draw.kind = "footer") =>
              /\ report'.footers = report.footers + 1
              /\ report'.draw.kind = "footer"
              /\ report'.draw.page = report'.footers
              /\ report'.footers <= report'.pageCount
              /\ report'.pageCount = report.pageCount
       /\ report.pc # "idle" /\ report'.pc = "idle" =>
              /\ report.footers = report.pageCount
              /\ reportsSaved' = reportsSaved + 1]_vars

\* The batch report of two pages has its second footer.
C24_Witness ==
    /\ report.pc = "batchFooters"
    /\ report.pageCount = 2
    /\ report.footers = 2
    /\ report.draw.page = 2

\* C25: the batch report draws one block per result, in the order of results:
\* each block is the next entry's, shows that entry's file, lies on one page
\* between the top margin and the bottom limit, and for a processed document
\* lists the first 3 red flags at most, with the marker of count - 3 more
\* exactly when there are more than 3; the disclaimer follows the last entry.
C25_OneBlockPerEntry ==
    [][report'.pc # "idle" /\ report.pc # "idle" =>
          LET results == probe.data.results
              drawn == report'.draw
              result == results[drawn.entry]
              count == IF result.red_flags = Undefined THEN 0 ELSE result.red_flags.value
          IN  /\ drawn.kind # "block" => drawn.entry = report.draw.entry
              /\ drawn.kind = "disclaimer" => drawn.entry = Len(results)
              /\ drawn.kind = "block" =>
                     /\ drawn.entry = report.draw.entry + 1
                     /\ drawn.entry \in DOMAIN results
                     /\ drawn.item.filename = result.filename
                     /\ drawn.page = report'.pageCount
                     /\ drawn.y >= Mm(20)
                     /\ drawn.bottom <= pageHeight - Mm(30)
                     /\ drawn.item.error <=> result.status = "error"
                     /\ result.status # "error" =>
                            /\ drawn.item.listed <= 3
                            /\ drawn.item.listed = (IF count > 3 THEN 3 ELSE count)
                            /\ drawn.item.more > 0 <=> count > 3
                            /\ count > 3 => drawn.item.more = count - 3]_vars

\* The fourth block opens the second page and lists 3 of 5 red flags.
C25_Witness ==
    /\ report.pc = "batchBlocks"
    /\ report.draw.kind = "block"
    /\ report.draw.entry = 4
    /\ report.draw.page = 2
    /\ report.draw.item.listed = 3
    /\ report.draw.item.more = 2

\* The batch requests whose response has not been read to its end.
BatchesInFlight == {b \in batchRequests : b.pc \in {"fetch", "json", "errorJson"}}

\* C26: a batch start with no document checked issues no request; every
\* request issued is the only one of its start, carries the checked documents
\* and the regulatory selection, and is issued while no other is in flight.
C26_OneBatchRequest ==
    [][/\ batchChecked = {} \/ lastSubmit' = "batch:empty" =>
              /\ batchCalls' = batchCalls
              /\ {b.id : b \in batchRequests'} \subseteq {b.id : b \in batchRequests}
       /\ batchCalls' # batchCalls \/ lastSubmit' = "batch:accepted" =>
              /\ batchCalls' = batchCalls + 1
              /\ BatchesInFlight = {}
              /\ batchChecked # {}
              /\ batchRequests' \ batchRequests =
                     {[id |-> batchCalls', documentIds |-> batchChecked,
                       mahareraIds |-> selectedMahareraIds, pc |-> "fetch"]}]_vars

\* After a batch that was sent and answered, a start with every box unchecked
\* has sent nothing.
C26_Witness ==
    /\ lastSubmit = "batch:empty"
    /\ batchCalls = 1
    /\ batchRequests = {}
    /\ batchResultsShown = 1

\* C27: while a batch request is in flight the progress never decreases, and
\* it comes to 100% only when the body of a successful response has been read.
C27_ProgressInOrder ==
    [][BatchesInFlight # {} =>
          /\ batchProgress'.width >= batchProgress.width
          /\ batchProgress'.width = 100 /\ batchProgress.width # 100 =>
                 /\ batchProgress.width = 70
                 /\ \E b \in batchRequests : b.pc = "json"]_vars

\* C28: the entries of a batch are shown independently. The summary counts as
\* processed the entries that are not errors; in the result message and in the
\* blocks of the PDF report an error entry is shown as an error, and every
\* other entry with its own red-flag count and clause ratio, whatever the other
\* entries are.
C28_EntriesIndependent ==
    probe.fn = "displayBatchResults" =>
        LET results == probe.data.results
            ShowsEntry(item, result) ==
                /\ item.filename = result.filename
                /\ item.error <=> result.status = "error"
                /\ result.status # "error" =>
                       /\ item.redFlags = (IF result.red_flags = Undefined
                                           THEN 0 ELSE result.red_flags.value)
                       /\ item.ratio = (IF result.compliance_summary = Undefined
                                        THEN <<0, 0>>
                                        ELSE <<result.compliance_summary.compliant_count,
                                               result.compliance_summary.total_checks>>)
        IN  /\ probe.data.summary.processed =
                   Len(results) - Cardinality({i \in DOMAIN results : results[i].status = "error"})
            /\ batchResultsShown > 0 =>
                   /\ DOMAIN probe.items = DOMAIN results
                   /\ \A i \in DOMAIN results : ShowsEntry(probe.items[i], results[i])
            /\ report.pc # "idle" /\ report.draw.kind = "block" =>
                   ShowsEntry(report.draw.item, results[report.draw.entry])

\* Of 3 documents the second is an error: 2 are counted as processed, and the
\* third is shown with its 5 red flags and 1 clause of 3, in the message and in
\* its block of the report.
C28_Witness ==
    /\ probe.fn = "displayBatchResults"
    /\ Len(probe.data.results) = 3
    /\ probe.data.results[2].status = "error"
    /\ probe.data.summary.processed = 2
    /\ Len(probe.items) = 3
    /\ probe.items[2].error
    /\ probe.items[3].redFlags = 5
    /\ probe.items[3].ratio = <<1, 3>>
    /\ probe.items[1].redFlags = 3
    /\ report.pc = "batchBlocks"
    /\ report.draw.entry = 3
    /\ report.draw.item.redFlags = 5

\* C29: closing the dialog while a batch request is in flight leaves every
\* request as it is and sends nothing; a request in flight behind a closed
\* dialog is still answered and handled to its end, and the results of every
\* successful response are displayed when its timer fires.
C29_CancelDoesNotAbort ==
    /\ [][/\ batchModalActive /\ ~batchModalActive' /\ batchResultsShown' = batchResultsShown =>
                 /\ batchRequests' = batchRequests
                 /\ batchCalls' = batchCalls
                 /\ netCalls' = netCalls
           /\ \A b \in batchRequests :
                 b.pc = "timer" /\ b \notin batchRequests' =>
                     batchResultsShown' = batchResultsShown + 1]_vars
    /\ \A id \in 1..MaxBatches :
          (~batchModalActive /\ \E b \in BatchesInFlight : b.id = id)
              ~> (\A b \in batchRequests : b.id # id)

\* The dialog is closed, and the response of the request sent from it has
\* arrived and is being read.
C29_Witness ==
    /\ ~batchModalActive
    /\ \E b \in batchRequests : b.pc = "json"
    /\ batchProgress.width = 70

\* C30: the compliance-summary block is in the message exactly when the
\* response has a compliance summary and its decision says compliance_check:
\* true; without that decision, the answer of a plain query has neither the
\* compliance-summary block nor the red-flag block, whatever red_flags and
\* compliance_summary the response carries.
C30_ComplianceBlocksOnlyForChecks ==
    probe.fn = "addMessage" /\ probe.built =>
        LET args == probe.args
            view == probe.view
            check == /\ args.decision.type = "object"
                     /\ args.decision.compliance_check = Bool(TRUE)
        IN  /\ view.complianceBlock # "none" <=>
                   check /\ args.complianceSummary.type = "object"
            /\ ~check => view.complianceBlock = "none" /\ view.redFlagBlock = <<>>

\* The answer of a plain query carried red flags and a compliance summary, and
\* the message shows neither.
C30_Witness ==
    /\ probe.fn = "addMessage"
    /\ probe.built
    /\ probe.args.decision.type = "object"
    /\ probe.args.decision.compliance_check = Undefined
    /\ probe.args.redFlags = JsonArray(<<"HIGH">>)
    /\ probe.args.complianceSummary.type = "object"
    /\ probe.view.complianceBlock = "none"
    /\ probe.view.redFlagBlock = <<>>

\* C31: with the sources shown by the settings, the source-list block is in
\* the message exactly when the response has sources to list and its decision
\* says compliance_check: true.
C31_SourcesOnlyForChecks ==
    probe.fn = "addMessage" /\ probe.built /\ probe.args.showSources =>
        (probe.view.sourcesBlock # <<>> <=>
            /\ probe.args.sources.type = "array"
            /\ probe.args.sources.items # <<>>
            /\ probe.args.decision.type = "object"
            /\ probe.args.decision.compliance_check = Bool(TRUE))

\* C31, as the code has it: the source-list block lists the sources of the
\* response exactly when there are some and the settings show them, whatever
\* the decision says of compliance_check.
C31_SourcesWhenShown ==
    probe.fn = "addMessage" /\ probe.built =>
        LET listable == /\ probe.args.sources.type = "array"
                        /\ probe.args.sources.items # <<>>
                        /\ probe.args.showSources
        IN  /\ listable => probe.view.sourcesBlock = probe.args.sources.items
            /\ ~listable => probe.view.sourcesBlock = <<>>

\* The answer of a plain query is shown with its source.
C31_Witness ==
    /\ probe.fn = "addMessage"
    /\ probe.built
    /\ probe.args.decision = JsonNull
    /\ probe.args.showSources
    /\ probe.view.sourcesBlock = <<"rera_act.pdf">>
    /\ ~probe.view.downloadBtn

SeverityRank == [CRITICAL |-> 1, HIGH |-> 2, MEDIUM |-> 3, LOW |-> 4]

\* C32: the red flags of a message are listed in the order CRITICAL, HIGH,
\* MEDIUM, LOW, whatever their order in the response.
C32_SeverityOrder ==
    probe.fn = "addMessage" /\ probe.built =>
        \A i, j \in DOMAIN probe.view.redFlagBlock :
            i < j => SeverityRank[probe.view.redFlagBlock[i]]
                         <= SeverityRank[probe.view.redFlagBlock[j]]

\* C33: for a compliance check whose summary is not compliant, the summary
\* block lists the groups of missing clauses in the order critical, high,
\* medium, without the empty ones, each with the clauses of its list in their
\* order, so that as many clauses are listed as the three lists hold.
C33_MissingGroupsInOrder ==
    probe.fn = "addMessage" /\ probe.built /\ probe.view.complianceBlock = "issues" =>
        LET summary == probe.args.complianceSummary
            groups == probe.view.missingGroups
            ListOf(title) ==
                LET list == CASE title = "critical" -> summary.critical_missing
                              [] title = "high" -> summary.high_missing
                              [] OTHER -> summary.medium_missing
                IN  IF list.type = "array" THEN list.items ELSE <<>>
            GroupRank(title) ==
                CASE title = "critical" -> 1 [] title = "high" -> 2 [] OTHER -> 3
        IN  /\ \A i \in DOMAIN groups :
                   /\ groups[i].group \in {"critical", "high", "medium"}
                   /\ groups[i].items = ListOf(groups[i].group)
                   /\ groups[i].items # <<>>
            /\ \A i, j \in DOMAIN groups :
                   i < j => GroupRank(groups[i].group) < GroupRank(groups[j].group)
            /\ \A title \in {"critical", "high", "medium"} :
                   ListOf(title) # <<>> => \E i \in DOMAIN groups : groups[i].group = title
            /\ Len(groups) <= 3

\* A summary of 2 clauses of 5 is shown with its 3 missing clauses, the
\* critical one before the two medium ones.
C33_Witness ==
    /\ probe.fn = "addMessage"
    /\ probe.built
    /\ probe.view.complianceBlock = "issues"
    /\ probe.args.complianceSummary.compliant_count = 2
    /\ probe.args.complianceSummary.total_checks = 5
    /\ probe.view.missingGroups =
           <<[group |-> "critical", items |-> <<"possession">>],
             [group |-> "medium", items |-> <<"parking", "society">>]>>

PollsOutstanding == <<pendingStatus, pendingUsage, pendingDocuments, pendingMaharera>>

PollsNeverBlocked ==
    /\ pendingStatus < MaxPending => ENABLED (checkServerStatus /\ UNCHANGED auxVars)
    /\ pendingUsage < MaxPending => ENABLED fetchApiUsage
    /\ pendingStatus > 0 =>
            ENABLED (checkServerStatusSettles("failed", 0) /\ UNCHANGED auxVars)
    /\ pendingUsage > 0 => ENABLED fetchApiUsageSettles
    /\ \A q \in queries : ENABLED (FetchSettlesOf(q.id) \/ BodySettlesOf(q.id))

C35_PollsIndependent ==
    /\ []PollsNeverBlocked
    /\ [][PollsOutstanding' # PollsOutstanding =>
            UNCHANGED <<isLoading, chatHistory, selectedUserDocIds, selectedMahareraIds,
                        queries, netCalls, uncaught, typingIndicators>>]_vars

\* A compliance check is in flight with a selection in both sets while a usage
\* poll and the two listing refreshes of a completed status poll are
\* outstanding.
C35_Witness ==
    /\ isLoading
    /\ \E q \in queries : q.kind = "compliance"
    /\ selectedUserDocIds # {}
    /\ selectedMahareraIds # {}
    /\ pendingUsage > 0
    /\ pendingDocuments > 0
    /\ pendingMaharera > 0

\* C36: while a compliance request is in flight the Check Compliance button is
\* disabled, and while any query is in flight the send button is disabled,
\* whatever toggles, select-alls, listing refreshes and completions of other
\* requests happen meanwhile.
C36_TriggersStayDisabled ==
    /\ (\E q \in queries : q.kind = "compliance") => checkComplianceBtnDisabled
    /\ queries # {} => sendBtnDisabled

\* C37: in the message of a compliance check the red-flag block and the "No
\* Red Flags Detected" banner never appear together; the block lists the red
\* flags of the response when it has any, the banner is shown exactly when it
\* has none and decision.is_red_flag is false (with is_red_flag unset neither
\* is shown), and neither depends on the compliance summary.
C37_RedFlagsOrBanner ==
    probe.fn = "addMessage" /\ probe.built /\ probe.view.downloadBtn =>
        LET args == probe.args
            view == probe.view
            flags == IF args.redFlags.type = "array" THEN args.redFlags.items ELSE <<>>
        IN  /\ ~(view.redFlagBlock # <<>> /\ view.noRedFlagsBanner)
            /\ view.redFlagBlock = flags
            /\ view.noRedFlagsBanner <=>
                   flags = <<>> /\ args.decision.is_red_flag = Bool(FALSE)
            /\ args.decision.is_red_flag = Undefined /\ flags = <<>> =>
                   view.redFlagBlock = <<>> /\ ~view.noRedFlagsBanner

\* A check whose summary is compliant is shown with the compliant block and a
\* red-flag block.
C37_Witness ==
    /\ probe.fn = "addMessage"
    /\ probe.built
    /\ probe.view.complianceBlock = "compliant"
    /\ probe.view.redFlagBlock = <<"HIGH">>
    /\ ~probe.view.noRedFlagsBanner

\* C38: once every outstanding listing refresh of the user documents has been
\* answered, the listing held is the response to the request issued last, and
\* it shows no document whose delete succeeded.
C38_LatestResponseWins ==
    probe.fn = "server" /\ probe.issued > 0 /\ probe.requests = {} =>
        /\ documents = probe.latest
        /\ documents \cap probe.deleted = {}

\* C39: once the backend holds no document any more, the status polls
\* eventually bring the user-document listing and the regulatory listing of
\* the page to empty.
C39_ListingsEventuallyEmpty ==
    (probe.fn = "backend" /\ DocumentCount(probe) = 0)
        ~> (documents = {} /\ mahareraDocuments = {})

\* C40: the dialog opens only with a selection and then offers exactly the
\* listed documents that are selected at that moment; only offered documents
\* can be checked, and a batch request carries document ids that are checked,
\* so every id sent was selected and listed when the dialog was opened. With
\* nothing selected the dialog does not open, and no request is sent from a
\* dialog that is not open.
C40_BatchIdsFromOpenedSelection ==
    /\ [](batchChecked \subseteq batchDocList)
    /\ [][/\ batchDocList' # batchDocList \/ (batchModalActive' /\ ~batchModalActive) =>
                /\ selectedUserDocIds # {}
                /\ batchDocList' = documents \cap selectedUserDocIds
          /\ \A b \in batchRequests' :
                b.id \notin {a.id : a \in batchRequests} =>
                    /\ batchModalActive
                    /\ b.documentIds # {}
                    /\ b.documentIds \subseteq batchDocList
                    /\ batchDocList' = batchDocList]_vars

\* A batch request for one of the two documents that were selected when the
\* dialog was opened is in flight, and the selection has been emptied since.
C40_Witness ==
    /\ batchDocList = UserFiles
    /\ selectedUserDocIds = {}
    /\ \E b \in batchRequests : b.documentIds = {"lease.pdf"} /\ b.pc = "fetch"

====
